---- MODULE Spec2Model ----
\* A model of the PDF bounding-box annotation tool (EedgeY/test-ocr-pdfme):
\* the Bounding Box Store (hooks/useBoundingBoxes), the image-pdf page
\* (app/image-pdf/page.tsx) with its drawing handlers, the OCR hook, the
\* table-detection hook and the PDF hook (usePDF).
\*
\* Numbers.  Lengths in point space are kept as integers counting hundredths
\* of a point (the code rounds every point value to 2 decimals), so 4.8pt is
\* 480.  Screen and raster coordinates are integers (pixels).
EXTENDS Integers, Sequences, FiniteSets, TLC

VARIABLES
    boundingBoxes,      \* useBoundingBoxes: the ordered store
    lastOp,             \* the last handler / store call made: its arguments
                        \* and (before) the store it was applied to
    now,                \* the value Date.now() returns
    isDrawing,          \* page.tsx drawing state
    startPoint,
    currentBox,
    selectedUnit,
    pdfInfo,            \* usePDF: PDFDocumentInfo
    loads,              \* usePDF: loadPDFFile calls awaiting getDocument
    renders,            \* usePDF: convertPageToImage calls awaiting the render
    docCount,           \* number of files handed to loadPDFFile so far
    settings,           \* useOCR: OCR settings
    textData,           \* useOCR: last OCR result (OCRTextData) or Null
    isOcrProcessing,    \* useOCR: isProcessing
    ocrRuns,            \* useOCR: performOCR calls awaiting the engine
    mode,               \* useTableDetection: detection mode
    isTableProcessing,  \* useTableDetection: isProcessing
    tableRuns,          \* useTableDetection: detectTables calls not yet finished
    cvLoaded,           \* useTableDetection: morphological engine status
    cvError,
    cvScripts           \* the engine's script elements appended to
                        \* document.head by the loader effect, in order

storeVars == <<boundingBoxes>>
drawVars  == <<isDrawing, startPoint, currentBox, selectedUnit>>
pdfVars   == <<pdfInfo, loads, renders, docCount>>
ocrVars   == <<settings, textData, isOcrProcessing, ocrRuns>>
tableVars == <<mode, isTableProcessing, tableRuns, cvLoaded, cvError,
               cvScripts>>
vars == <<boundingBoxes, lastOp, now, isDrawing, startPoint, currentBox,
          selectedUnit, pdfInfo, loads, renders, docCount, settings, textData,
          isOcrProcessing, ocrRuns, mode, isTableProcessing, tableRuns,
          cvLoaded, cvError, cvScripts>>

----------------------------------------------------------------------------
\* Bounds of the model

\* the store holds at most this many boxes (adds are disabled beyond it)
MaxBoxes == 3
\* the page is explored until its store holds this many boxes
MaxPageBoxes == 2
\* Date.now() ranges over 0..MaxClock
MaxClock == 1
\* files handed to loadPDFFile in one run
MaxLoads == 2
\* a file has 1..MaxPages pages
MaxPages == 2
\* page renders awaited at the same time
MaxRenders == 2
\* root tool: mouse-ups awaiting their page at the same time
MaxPendingReleases == 1

----------------------------------------------------------------------------
\* Types (utils/types)

\* null and undefined where an object is expected
Null == [null |-> TRUE]
Undefined == [undefined |-> TRUE]
\* an absent optional `kind` field reads as undefined
NoKind == "undefined"

Unit == {"px", "mm", "pt"}
BoundingBoxKind == {"manual", "ocr", "table"}
OCRLevel == {"word", "line", "paragraph", "block"}
TableDetectionMode == {"table", "cells", "lines"}

\* ids are template strings `${prefix}-${Date.now()}-${i}-${j}`; the record
\* keeps the parts (i, j are -1 where the template has no such part)
MkId(prefix, t, i, j) == [prefix |-> prefix, t |-> t, i |-> i, j |-> j]

MkBox(id, x, y, w, h, unit, kind) ==
    [id |-> id, x |-> x, y |-> y, width |-> w, height |-> h,
     unit |-> unit, kind |-> kind]

BoxFields == {"id", "x", "y", "width", "height", "unit", "kind"}

----------------------------------------------------------------------------
\* Coordinate conversion (utils/coordinateConversion)

\* a raster coordinate that need not be whole: n / d with n >= 0; d = 0 is
\* the outcome of a division by zero
Rat(n, d) == [n |-> n, d |-> d]

\* the numbers that are not finite
Infinity == [notFinite |-> "Infinity"]
NaN == [notFinite |-> "NaN"]

\* n / 0 for n >= 0: 0 / 0 and 0 * Infinity are NaN, any other is Infinity,
\* and scaling or rounding leaves either as it is
NotFinite(value) == IF value.n = 0 THEN NaN ELSE Infinity

\* Math.round(a / b) for b > 0: the nearest integer, halves upwards
RoundDiv(a, b) == (2 * a + b) \div (2 * b)

Abs(a) == IF a < 0 THEN -a ELSE a
Min(a, b) == IF a < b THEN a ELSE b
Max(a, b) == IF a > b THEN a ELSE b

\* the raster is rendered at 300 units per inch, a point is 1/72 inch
RasterDpi == 300
PointDpi == 72

\* image / dpiScale with dpiScale = 300 / 72: a length in points, not rounded
PointsOf(image) == Rat(image.n * PointDpi, image.d * RasterDpi)

\* Math.round(points * 100) / 100, in hundredths of a point
RoundPt(points) ==
    IF points.d = 0 THEN NotFinite(points)
    ELSE RoundDiv(points.n * 100, points.d)

\* Math.round((points / 0.75) * 100) / 100, in hundredths of a pixel
RoundPx(points) ==
    IF points.d = 0 THEN NotFinite(points)
    ELSE RoundDiv(points.n * 400, points.d * 3)

\* Math.round((points / 2.834645669) * 100) / 100, in hundredths of a
\* millimetre; 2.834645669 is 72 / 25.4 to ten digits, and 2540 / 72 = 635 / 18
RoundMm(points) ==
    IF points.d = 0 THEN NotFinite(points)
    ELSE RoundDiv(points.n * 635, points.d * 18)

\* the three forms of a rectangle given in points
CoordinateConversion(pdfX, pdfY, pdfWidth, pdfHeight) ==
    [pt |-> [x |-> RoundPt(pdfX), y |-> RoundPt(pdfY),
             width |-> RoundPt(pdfWidth), height |-> RoundPt(pdfHeight)],
     px |-> [x |-> RoundPx(pdfX), y |-> RoundPx(pdfY),
             width |-> RoundPx(pdfWidth), height |-> RoundPx(pdfHeight)],
     mm |-> [x |-> RoundMm(pdfX), y |-> RoundMm(pdfY),
             width |-> RoundMm(pdfWidth), height |-> RoundMm(pdfHeight)]]

\* imageCoordsToPDFPoints: the pt, px and mm forms of a raster rectangle
imageCoordsToPDFPoints(imageX, imageY, imageWidth, imageHeight) ==
    CoordinateConversion(PointsOf(imageX), PointsOf(imageY),
                         PointsOf(imageWidth), PointsOf(imageHeight))

\* displayToImageCoords: scale = originalDimensions / element client size
displayToImageCoords(displayX, displayY, displayWidth, displayHeight, originalDimensions, imageElement) ==
    IF originalDimensions = Null \/ imageElement = Null THEN Null
    ELSE [x |-> Rat(displayX * originalDimensions.width,
                    imageElement.clientWidth),
          y |-> Rat(displayY * originalDimensions.height,
                    imageElement.clientHeight),
          width |-> Rat(displayWidth * originalDimensions.width,
                        imageElement.clientWidth),
          height |-> Rat(displayHeight * originalDimensions.height,
                         imageElement.clientHeight)]

\* usePDF.convertDisplayToPDF, reading pdfInfo.originalDimensions
convertDisplayToPDF(originalDimensions, displayX, displayY, displayWidth, displayHeight, imageElement) ==
    IF originalDimensions = Null THEN Null
    ELSE IF imageElement = Null THEN Null
    ELSE LET imageCoords == displayToImageCoords(displayX, displayY,
                                displayWidth, displayHeight,
                                originalDimensions, imageElement)
         IN  IF imageCoords = Null THEN Null
             ELSE imageCoordsToPDFPoints(imageCoords.x, imageCoords.y,
                                         imageCoords.width, imageCoords.height)

----------------------------------------------------------------------------
\* Unit conversion for the export payload and for the on-screen list; values
\* are in hundredths of their unit, as Rat where they need not be whole

\* 1 / 0.75 = 4 / 3; 2.834645669 is taken as 72 / 25.4, so that
\* 1 / 2.834645669 = 25.4 / 72 = 635 / 1800
pointsToPixels(points) == Rat(points.n * 4, points.d * 3)
pointsToMillimeters(points) == Rat(points.n * 635, points.d * 1800)
pixelsToPoints(pixels) == Rat(pixels.n * 3, pixels.d * 4)
millimetersToPoints(millimeters) == Rat(millimeters.n * 1800, millimeters.d * 635)

\* coordinateConversion.convertToUnits: through points, with no rounding
convertToUnits(value, fromUnit, toUnit) ==
    IF fromUnit = toUnit THEN value
    ELSE LET points == CASE fromUnit = "px" -> pixelsToPoints(value)
                         [] fromUnit = "mm" -> millimetersToPoints(value)
                         [] OTHER -> value
         IN  CASE toUnit = "px" -> pointsToPixels(points)
               [] toUnit = "mm" -> pointsToMillimeters(points)
               [] OTHER -> points

\* the list's own convertToUnits: the same path, then
\* Math.round(result * 100) / 100
BoundingBoxesListConvertToUnits(value, fromUnit, toUnit) ==
    IF fromUnit = toUnit THEN value
    ELSE LET result == convertToUnits(value, fromUnit, toUnit)
         IN  Rat(RoundDiv(result.n, result.d), 1)

\* the four scalars of a box in a unit, by a conversion so named
BoxIn(box, toUnit, conversion) ==
    [f \in {"x", "y", "width", "height"} |->
        IF conversion = "list"
        THEN BoundingBoxesListConvertToUnits(Rat(box[f], 1), box.unit, toUnit)
        ELSE convertToUnits(Rat(box[f], 1), box.unit, toUnit)]

\* exportBoundingBoxes: the boundingBoxes array of the payload
exportBoundingBoxes(boxes) ==
    [i \in 1..Len(boxes) |->
        [id |-> boxes[i].id, index |-> i, kind |-> boxes[i].kind,
         pt |-> BoxIn(boxes[i], "pt", "export"),
         px |-> BoxIn(boxes[i], "px", "export"),
         mm |-> BoxIn(boxes[i], "mm", "export")]]

\* the pt, px and mm values the list shows for the boxes
BoundingBoxesList(boxes) ==
    [i \in 1..Len(boxes) |->
        [pt |-> BoxIn(boxes[i], "pt", "list"),
         px |-> BoxIn(boxes[i], "px", "list"),
         mm |-> BoxIn(boxes[i], "mm", "list")]]

----------------------------------------------------------------------------
\* The Bounding Box Store: the state updaters of useBoundingBoxes

addBoundingBox(prev, box) == Append(prev, box)

\* a variant that puts the new boxes in front
addBoundingBoxes_Prepend(prev, boxes) == boxes \o prev

addBoundingBoxes(prev, boxes) == prev \o boxes

\* a variant that removes by position, splice(findIndex(...), 1): an id that
\* is not found gives position -1, which splice reads as the last element
removeBoundingBox_Splice(prev, id) ==
    IF \E i \in 1..Len(prev) : prev[i].id = id
    THEN SelectSeq(prev, LAMBDA box : box.id # id)
    ELSE SubSeq(prev, 1, Len(prev) - 1)

removeBoundingBox(prev, id) == SelectSeq(prev, LAMBDA box : box.id # id)

\* a variant that reads an absent kind as 'manual', as the statistics do
removeBoundingBoxesByKind_ManualDefault(prev, kind) ==
    SelectSeq(prev, LAMBDA box :
        (IF box.kind = NoKind THEN "manual" ELSE box.kind) # kind)

removeBoundingBoxesByKind(prev, kind) ==
    SelectSeq(prev, LAMBDA box : box.kind # kind)

clearBoundingBoxes(prev) == << >>

\* { ...box, ...updates }: every field of updates overrides the box's
Merge(box, updates) ==
    [f \in DOMAIN box |-> IF f \in DOMAIN updates THEN updates[f] ELSE box[f]]

updateBoundingBox(prev, id, updates) ==
    [i \in 1..Len(prev) |->
        IF prev[i].id = id THEN Merge(prev[i], updates) ELSE prev[i]]

getBoundingBox(boxes, id) ==
    IF \E i \in 1..Len(boxes) : boxes[i].id = id
    THEN boxes[CHOOSE i \in 1..Len(boxes) :
                  /\ boxes[i].id = id
                  /\ \A j \in 1..(i - 1) : boxes[j].id # id]
    ELSE Undefined

getBoundingBoxesByKind(boxes, kind) ==
    SelectSeq(boxes, LAMBDA box : box.kind = kind)

\* box.kind || 'manual'
KindOrManual(box) == IF box.kind = NoKind THEN "manual" ELSE box.kind

\* a variant that counts a box under whatever its kind field holds
getBoundingBoxesStats_RawKind(boxes) ==
    LET byKind == [k \in {boxes[i].kind : i \in 1..Len(boxes)} |->
                      Len(SelectSeq(boxes, LAMBDA box : box.kind = k))]
        Positive(k) == k \in DOMAIN byKind /\ byKind[k] > 0
    IN  [total |-> Len(boxes), byKind |-> byKind, hasOCR |-> Positive("ocr"),
         hasTable |-> Positive("table"), hasManual |-> Positive("manual")]

\* getBoundingBoxesStats: byKind has a key only for the kinds it met, and
\* `byKind.k > 0` is false for a key it does not have
getBoundingBoxesStats(boxes) ==
    LET byKind == [k \in {KindOrManual(boxes[i]) : i \in 1..Len(boxes)} |->
                      Len(SelectSeq(boxes, LAMBDA box : KindOrManual(box) = k))]
        Positive(k) == k \in DOMAIN byKind /\ byKind[k] > 0
    IN  [total |-> Len(boxes), byKind |-> byKind, hasOCR |-> Positive("ocr"),
         hasTable |-> Positive("table"), hasManual |-> Positive("manual")]

----------------------------------------------------------------------------
\* Initial state: the hooks' useState initial values

InitialPdfInfo ==
    [file |-> Null, document |-> Null, currentPage |-> 1, totalPages |-> 0,
     imageDataUrl |-> Null, originalDimensions |-> Null, isLoaded |-> FALSE]

InitialSettings ==
    [language |-> "eng", level |-> "word", minConfidence |-> 60,
     enhanceImage |-> TRUE]

Init ==
    /\ boundingBoxes = << >>
    /\ lastOp = [op |-> "init"]
    /\ now = 0
    /\ isDrawing = FALSE
    /\ startPoint = Null
    /\ currentBox = Null
    /\ selectedUnit = "px"
    /\ pdfInfo = InitialPdfInfo
    /\ loads = << >>
    /\ renders = << >>
    /\ docCount = 0
    /\ settings = InitialSettings
    /\ textData = Null
    /\ isOcrProcessing = FALSE
    /\ ocrRuns = << >>
    /\ mode = "table"
    /\ isTableProcessing = FALSE
    /\ tableRuns = << >>
    /\ cvLoaded = FALSE
    /\ cvError = Null
    /\ cvScripts = << >>

\* Date.now() advances between two handler runs, or does not
Tick ==
    /\ now < MaxClock
    /\ now' = now + 1
    /\ lastOp' = [op |-> "tick"]
    /\ UNCHANGED <<storeVars, drawVars, pdfVars, ocrVars, tableVars>>

----------------------------------------------------------------------------
\* The store driven through its own interface (any caller of the hook)

IdA == MkId("bbox", 0, -1, -1)
IdB == MkId("bbox", 1, -1, -1)
IdC == MkId("cell", 0, 0, 0)
IdAbsent == MkId("bbox", 2, -1, -1)

BoxA == MkBox(IdA, 0, 0, 480, 480, "pt", "manual")
BoxB == MkBox(IdB, 192, 48, 384, 336, "pt", NoKind)
BoxC == MkBox(IdC, 96, 96, 240, 120, "pt", "table")

BoxInputs == {BoxA, BoxB, BoxC}
BoxesInputs == {<<BoxB, BoxC>>, <<BoxC, BoxA>>}
IdInputs == {IdA, IdB, IdAbsent}
\* Partial<BoundingBox> values handed to update
UpdateInputs ==
    {[width |-> -480], [id |-> IdB], [x |-> 96, kind |-> "ocr"]}

StoreFrame == UNCHANGED <<now, drawVars, pdfVars, ocrVars, tableVars>>

StoreAdd ==
    \E box \in BoxInputs :
        /\ Len(boundingBoxes) < MaxBoxes
        /\ boundingBoxes' = addBoundingBox(boundingBoxes, box)
        /\ lastOp' = [op |-> "add", before |-> boundingBoxes, box |-> box]
        /\ StoreFrame

StoreAddMany ==
    \E boxes \in BoxesInputs :
        /\ Len(boundingBoxes) + Len(boxes) <= MaxBoxes
        /\ boundingBoxes' = addBoundingBoxes(boundingBoxes, boxes)
        /\ lastOp' = [op |-> "addMany", before |-> boundingBoxes,
                       boxes |-> boxes]
        /\ StoreFrame

StoreRemove ==
    \E id \in IdInputs :
        /\ boundingBoxes' = removeBoundingBox(boundingBoxes, id)
        /\ lastOp' = [op |-> "remove", before |-> boundingBoxes, id |-> id]
        /\ StoreFrame

StoreRemoveByKind ==
    \E kind \in BoundingBoxKind :
        /\ boundingBoxes' = removeBoundingBoxesByKind(boundingBoxes, kind)
        /\ lastOp' = [op |-> "removeByKind", before |-> boundingBoxes,
                       kind |-> kind]
        /\ StoreFrame

StoreClear ==
    /\ boundingBoxes' = clearBoundingBoxes(boundingBoxes)
    /\ lastOp' = [op |-> "clear", before |-> boundingBoxes]
    /\ StoreFrame

StoreUpdate ==
    \E id \in IdInputs, updates \in UpdateInputs :
        /\ boundingBoxes' = updateBoundingBox(boundingBoxes, id, updates)
        /\ lastOp' = [op |-> "update", before |-> boundingBoxes, id |-> id,
                       updates |-> updates]
        /\ StoreFrame

StoreNext ==
    \/ StoreAdd
    \/ StoreAddMany
    \/ StoreRemove
    \/ StoreRemoveByKind
    \/ StoreClear
    \/ StoreUpdate

StoreSpec == Init /\ [][StoreNext]_vars

----------------------------------------------------------------------------
\* The image-pdf page with a rendered page on screen (page.tsx)

\* the raster of the page on screen and the layout of its <img> element
RasterDims == [width |-> 200, height |-> 200]
ImageElements == {[clientWidth |-> 100, clientHeight |-> 100]}

\* usePDF after a one-page file was loaded and its page rendered
LoadedPdfInfo ==
    [file |-> [name |-> 1], document |-> [id |-> 1, numPages |-> 1], currentPage |-> 1,
     totalPages |-> 1, imageDataUrl |-> [doc |-> 1, page |-> 1],
     originalDimensions |-> RasterDims, isLoaded |-> TRUE]

PageInit ==
    /\ boundingBoxes = << >>
    /\ lastOp = [op |-> "init"]
    /\ now = 0
    /\ isDrawing = FALSE
    /\ startPoint = Null
    /\ currentBox = Null
    /\ selectedUnit = "px"
    /\ pdfInfo = LoadedPdfInfo
    /\ loads = << >>
    /\ renders = << >>
    /\ docCount = 1
    /\ settings = InitialSettings
    /\ textData = Null
    /\ isOcrProcessing = FALSE
    /\ ocrRuns = << >>
    /\ mode = "table"
    /\ isTableProcessing = FALSE
    /\ tableRuns = << >>
    /\ cvLoaded = FALSE
    /\ cvError = Null
    /\ cvScripts = << >>

\* mouse positions relative to the viewer container
Points == {[x |-> 0, y |-> 0], [x |-> 4, y |-> 8], [x |-> 12, y |-> 11]}

\* a drag rectangle must be larger than this in both directions
MinDragSize == 5

\* the rectangle of a drag from startPoint to the current position
DragRect(start, p) ==
    [x |-> Min(p.x, start.x), y |-> Min(p.y, start.y),
     width |-> Abs(p.x - start.x), height |-> Abs(p.y - start.y)]

\* a variant that labels the box with the unit selected for display
ManualBoxes_SelectedUnit(start, p, originalDimensions, imageElement, t) ==
    LET r == DragRect(start, p)
        coords == convertDisplayToPDF(originalDimensions, r.x, r.y, r.width,
                                      r.height, imageElement)
    IN  IF coords # Null /\ r.width > MinDragSize /\ r.height > MinDragSize
        THEN << MkBox(MkId("bbox", t, -1, -1), coords.pt.x, coords.pt.y,
                      coords.pt.width, coords.pt.height, selectedUnit,
                      "manual") >>
        ELSE << >>

\* a variant that tests the width only
ManualBoxes_WidthOnly(start, p, originalDimensions, imageElement, t) ==
    LET r == DragRect(start, p)
        coords == convertDisplayToPDF(originalDimensions, r.x, r.y, r.width,
                                      r.height, imageElement)
    IN  IF coords # Null /\ r.width > MinDragSize
        THEN << MkBox(MkId("bbox", t, -1, -1), coords.pt.x, coords.pt.y,
                      coords.pt.width, coords.pt.height, "pt", "manual") >>
        ELSE << >>

\* handleMouseUp: the boxes it hands to addBoundingBoxes (one or none)
ManualBoxes(start, p, originalDimensions, imageElement, t) ==
    LET r == DragRect(start, p)
        coords == convertDisplayToPDF(originalDimensions, r.x, r.y, r.width,
                                      r.height, imageElement)
    IN  IF coords # Null /\ r.width > MinDragSize /\ r.height > MinDragSize
        THEN << MkBox(MkId("bbox", t, -1, -1), coords.pt.x, coords.pt.y,
                      coords.pt.width, coords.pt.height, "pt", "manual") >>
        ELSE << >>

\* handlers run to completion: no event is delivered while a synchronous
\* detection body and its continuations are still running
EventLoopIdle == tableRuns = << >>

\* the viewer container carries the mouse handlers only while an image is shown
ViewerShown == pdfInfo.imageDataUrl # Null

handleMouseDown ==
    \E p \in Points :
        /\ EventLoopIdle
        /\ ViewerShown
        /\ isDrawing' = TRUE
        /\ startPoint' = p
        /\ lastOp' = [op |-> "handleMouseDown"]
        /\ UNCHANGED <<boundingBoxes, now, currentBox, selectedUnit,
                       pdfVars, ocrVars, tableVars>>

handleMouseMove ==
    \E p \in Points :
        /\ EventLoopIdle
        /\ ViewerShown
        /\ isDrawing /\ startPoint # Null
        /\ LET r == DragRect(startPoint, p)
           IN  currentBox' = MkBox(MkId("temp", now, -1, -1), r.x, r.y,
                                   r.width, r.height, selectedUnit, NoKind)
        /\ lastOp' = [op |-> "handleMouseMove"]
        /\ UNCHANGED <<boundingBoxes, now, isDrawing, startPoint,
                       selectedUnit, pdfVars, ocrVars, tableVars>>

\* handleMouseUp at position p, with imageRef.current laid out as given
MouseUp(p, imageElement) ==
    /\ EventLoopIdle
    /\ ViewerShown
    /\ isDrawing /\ startPoint # Null /\ currentBox # Null
    /\ LET boxes == ManualBoxes(startPoint, p, pdfInfo.originalDimensions,
                                imageElement, now)
       IN  /\ Len(boundingBoxes) + Len(boxes) <= MaxPageBoxes
           /\ boundingBoxes' =
                 IF boxes # << >>
                 THEN addBoundingBoxes(boundingBoxes, boxes)
                 ELSE boundingBoxes
    /\ isDrawing' = FALSE
    /\ startPoint' = Null
    /\ currentBox' = Null
    /\ lastOp' = [op |-> "handleMouseUp", before |-> boundingBoxes,
                   start |-> startPoint, p |-> p,
                   imageElement |-> imageElement]
    /\ UNCHANGED <<now, selectedUnit, pdfVars, ocrVars, tableVars>>

handleMouseUp ==
    \E p \in Points, imageElement \in ImageElements :
        MouseUp(p, imageElement)

setSelectedUnit ==
    \E value \in Unit :
        /\ EventLoopIdle
        /\ selectedUnit' = value
        /\ lastOp' = [op |-> "setSelectedUnit"]
        /\ UNCHANGED <<boundingBoxes, now, isDrawing, startPoint, currentBox,
                       pdfVars, ocrVars, tableVars>>

\* the Clear All button: shown once a file is loaded, disabled on an empty store
handleClearAll ==
    /\ EventLoopIdle
    /\ pdfInfo.isLoaded
    /\ Len(boundingBoxes) # 0
    /\ boundingBoxes' = clearBoundingBoxes(boundingBoxes)
    /\ lastOp' = [op |-> "clearBoundingBoxes", before |-> boundingBoxes]
    /\ UNCHANGED <<now, drawVars, pdfVars, ocrVars, tableVars>>

Next ==
    \/ handleMouseDown
    \/ handleMouseMove
    \/ handleMouseUp
    \/ setSelectedUnit
    \/ handleClearAll
    \/ Tick

Spec == PageInit /\ [][Next]_vars

----------------------------------------------------------------------------
\* Every mouse event of the viewer, the ignored ones included

\* handleMouseUp when its first test returns: no drag is in progress, or no
\* mouse-move has set the preview box yet
handleMouseUpReturned ==
    \E p \in Points :
        /\ EventLoopIdle
        /\ ViewerShown
        /\ ~(isDrawing /\ startPoint # Null /\ currentBox # Null)
        /\ lastOp' = [op |-> "handleMouseUp", returned |-> TRUE, p |-> p]
        /\ UNCHANGED <<boundingBoxes, now, drawVars, pdfVars, ocrVars,
                       tableVars>>

DrawNext ==
    \/ handleMouseDown
    \/ handleMouseMove
    \/ handleMouseUp
    \/ handleMouseUpReturned
    \/ Tick

DrawSpec == PageInit /\ [][DrawNext]_vars

----------------------------------------------------------------------------
\* Display-to-point conversion on pages and elements of any size

\* rasters of a page whose viewport has no width or no height
EmptyRasterDims == {[width |-> 0, height |-> 200], [width |-> 200, height |-> 0]}

\* an <img> that is not laid out, or laid out with no width or no height
EmptyImageElements ==
    {[clientWidth |-> 0, clientHeight |-> 0],
     [clientWidth |-> 0, clientHeight |-> 100],
     [clientWidth |-> 100, clientHeight |-> 0]}

ConversionInit ==
    /\ boundingBoxes = << >>
    /\ lastOp = [op |-> "init"]
    /\ now = 0
    /\ isDrawing = FALSE
    /\ startPoint = Null
    /\ currentBox = Null
    /\ selectedUnit = "px"
    /\ \E dims \in {RasterDims} \cup EmptyRasterDims :
          pdfInfo = [LoadedPdfInfo EXCEPT !.originalDimensions = dims]
    /\ loads = << >>
    /\ renders = << >>
    /\ docCount = 1
    /\ settings = InitialSettings
    /\ textData = Null
    /\ isOcrProcessing = FALSE
    /\ ocrRuns = << >>
    /\ mode = "table"
    /\ isTableProcessing = FALSE
    /\ tableRuns = << >>
    /\ cvLoaded = FALSE
    /\ cvError = Null
    /\ cvScripts = << >>

\* handleMouseUp while the <img> has no width or no height
handleMouseUpEmptyImage ==
    \E p \in Points, imageElement \in EmptyImageElements :
        MouseUp(p, imageElement)

\* displayToImageCoords and convertDisplayToPDF applied to a drag rectangle,
\* with dimensions and element present or not
ApplyConvertDisplayToPDF ==
    \E start \in Points, p \in Points,
       originalDimensions \in {Null, RasterDims} \cup EmptyRasterDims,
       imageElement \in {Null} \cup ImageElements \cup EmptyImageElements :
        /\ ~isDrawing
        /\ boundingBoxes = << >>
        /\ LET r == DragRect(start, p)
           IN  lastOp' =
                 [op |-> "convertDisplayToPDF",
                  originalDimensions |-> originalDimensions,
                  imageElement |-> imageElement,
                  image |-> displayToImageCoords(r.x, r.y, r.width, r.height,
                                originalDimensions, imageElement),
                  coords |-> convertDisplayToPDF(originalDimensions, r.x, r.y,
                                r.width, r.height, imageElement)]
        /\ UNCHANGED <<boundingBoxes, now, drawVars, pdfVars, ocrVars,
                       tableVars>>

ConversionNext ==
    \/ handleMouseDown
    \/ handleMouseMove
    \/ handleMouseUp
    \/ handleMouseUpEmptyImage
    \/ handleClearAll
    \/ ApplyConvertDisplayToPDF

ConversionSpec == ConversionInit /\ [][ConversionNext]_vars

----------------------------------------------------------------------------
\* OCR (hooks/useOCR, utils/ocrUtils)

\* the elements of a list with their 0-based positions, as forEach sees them
Indexed(seq) == [i \in 1..Len(seq) |-> [index |-> i - 1, item |-> seq[i]]]

\* processOCRResult, one hierarchy level: the engine's corner-form boxes with
\* their converted forms
ProcessLevel(items, prefix, t) ==
    [i \in 1..Len(items) |->
        LET bbox == items[i].bbox
            width == Max(1, bbox.x1 - bbox.x0)
            height == Max(1, bbox.y1 - bbox.y0)
            coords == imageCoordsToPDFPoints(Rat(bbox.x0, 1), Rat(bbox.y0, 1),
                                             Rat(width, 1), Rat(height, 1))
        IN  [id |-> MkId(prefix, t, i - 1, -1),
             confidence |-> items[i].confidence,
             bbox |-> [original |-> bbox, pt |-> coords.pt, px |-> coords.px,
                      mm |-> coords.mm]]]

processOCRResult(tesseractData, t) ==
    [words |-> ProcessLevel(tesseractData.words, "ocr-word", t),
     lines |-> ProcessLevel(tesseractData.lines, "ocr-line", t),
     paragraphs |-> ProcessLevel(tesseractData.paragraphs, "ocr-paragraph", t),
     blocks |-> ProcessLevel(tesseractData.blocks, "ocr-block", t)]

getOCRDataByLevel(data, level) ==
    CASE level = "line" -> data.lines
      [] level = "paragraph" -> data.paragraphs
      [] level = "block" -> data.blocks
      [] OTHER -> data.words

filterOCRResultsByConfidence(items, minConfidence) ==
    SelectSeq(items, LAMBDA item : item.confidence >= minConfidence)

\* the id prefix `ocr-${settings.level}-bbox`
OcrBoxPrefix(level) ==
    CASE level = "line" -> "ocr-line-bbox"
      [] level = "paragraph" -> "ocr-paragraph-bbox"
      [] level = "block" -> "ocr-block-bbox"
      [] OTHER -> "ocr-word-bbox"

\* useOCR.generateBoundingBoxes (its unit argument is never read)
generateBoundingBoxes(data, ocrSettings, t) ==
    IF data = Null THEN << >>
    ELSE LET items == getOCRDataByLevel(data, ocrSettings.level)
             filteredItems ==
                 filterOCRResultsByConfidence(items, ocrSettings.minConfidence)
             kept == SelectSeq(Indexed(filteredItems), LAMBDA e :
                         e.item.bbox.pt.x # 0 /\ e.item.bbox.pt.y # 0)
         IN  [k \in 1..Len(kept) |->
                 LET coords == kept[k].item.bbox.pt
                 IN  MkBox(MkId(OcrBoxPrefix(ocrSettings.level), t,
                                kept[k].index, -1),
                           coords.x, coords.y, coords.width, coords.height,
                           "pt", "ocr")]

\* the page's effect on [ocrTextData, generateBoundingBoxes]: the boxes it
\* hands to addBoundingBoxes, or none when it does not call it
OcrEffectBoxes(data, ocrSettings, t) ==
    IF data # Null /\ Len(data.words) > 0
    THEN generateBoundingBoxes(data, ocrSettings, t)
    ELSE << >>

\* what the recognition engine may return for the page on screen
RawText ==
    [words |-> << [bbox |-> [x0 |-> 30, y0 |-> 30, x1 |-> 90, y1 |-> 50],
                   confidence |-> 95],
                  [bbox |-> [x0 |-> 0, y0 |-> 60, x1 |-> 40, y1 |-> 80],
                   confidence |-> 70] >>,
     lines |-> << [bbox |-> [x0 |-> 30, y0 |-> 30, x1 |-> 90, y1 |-> 50],
                   confidence |-> 80] >>,
     paragraphs |-> << >>,
     blocks |-> << >>]
RawEmpty ==
    [words |-> << >>, lines |-> << >>, paragraphs |-> << >>, blocks |-> << >>]
RawResults == {RawText, RawEmpty}

SettingsInputs == {[level |-> "line"], [minConfidence |-> 90]}

\* the OCR and table-detection panels are rendered for a loaded page image
PanelsShown == pdfInfo.isLoaded /\ pdfInfo.imageDataUrl # Null

\* the Perform OCR button (disabled while isProcessing) and performOCR up to
\* its first await
handlePerformOCR ==
    /\ EventLoopIdle
    /\ PanelsShown
    /\ ~isOcrProcessing
    /\ isOcrProcessing' = TRUE
    /\ ocrRuns' = Append(ocrRuns, [image |-> pdfInfo.imageDataUrl])
    /\ lastOp' = [op |-> "performOCR"]
    /\ UNCHANGED <<boundingBoxes, now, drawVars, pdfVars, settings, textData,
                   tableVars>>

\* the engine answers: performOCR stores the processed result and clears the
\* flag; the page's effect then adds the generated boxes
OcrResolved ==
    \E tesseractData \in RawResults :
        /\ EventLoopIdle
        /\ ocrRuns # << >>
        /\ LET processedData == processOCRResult(tesseractData, now)
               boxes == OcrEffectBoxes(processedData, settings, now)
           IN  /\ Len(boundingBoxes) + Len(boxes) <= MaxPageBoxes
               /\ textData' = processedData
               /\ boundingBoxes' = addBoundingBoxes(boundingBoxes, boxes)
        /\ isOcrProcessing' = FALSE
        /\ ocrRuns' = Tail(ocrRuns)
        /\ lastOp' = [op |-> "ocrResolved", before |-> boundingBoxes]
        /\ UNCHANGED <<now, drawVars, pdfVars, settings, tableVars>>

\* preprocessing or recognition throws: the error is logged, the flag cleared
OcrRejected ==
    /\ EventLoopIdle
    /\ ocrRuns # << >>
    /\ isOcrProcessing' = FALSE
    /\ ocrRuns' = Tail(ocrRuns)
    /\ lastOp' = [op |-> "ocrRejected", thrown |-> FALSE]
    /\ UNCHANGED <<boundingBoxes, now, drawVars, pdfVars, settings, textData,
                   tableVars>>

\* updateSettings makes a new settings object, so generateBoundingBoxes is a
\* new function and the page's effect runs again
updateOCRSettings ==
    \E newSettings \in SettingsInputs :
        /\ EventLoopIdle
        /\ PanelsShown
        /\ LET merged == Merge(settings, newSettings)
               boxes == OcrEffectBoxes(textData, merged, now)
           IN  /\ Len(boundingBoxes) + Len(boxes) <= MaxPageBoxes
               /\ settings' = merged
               /\ boundingBoxes' = addBoundingBoxes(boundingBoxes, boxes)
        /\ lastOp' = [op |-> "updateSettings", before |-> boundingBoxes]
        /\ UNCHANGED <<now, drawVars, pdfVars, textData, isOcrProcessing,
                       ocrRuns, tableVars>>

----------------------------------------------------------------------------
\* Table detection (hooks/useTableDetection, utils/tableDetectionUtils)

Rect(x, y, width, height) == [x |-> x, y |-> y, width |-> width, height |-> height]

\* a raster rectangle in point space, as every detector stores it
TableBox(id, x, y, width, height) ==
    LET coords == imageCoordsToPDFPoints(Rat(x, 1), Rat(y, 1), Rat(width, 1),
                                         Rat(height, 1))
    IN  MkBox(id, coords.pt.x, coords.pt.y, coords.pt.width, coords.pt.height,
              "pt", "table")

\* the boxes of the contours that passed a detector's size test; the id keeps
\* the contour's own index
ContourBoxes(kept, prefix, t) ==
    [k \in 1..Len(kept) |->
        LET rect == kept[k].item
        IN  TableBox(MkId(prefix, t, kept[k].index, -1), rect.x, rect.y,
                     rect.width, rect.height)]

\* Math.max(1, rect.height) and Math.max(1, rect.width) of the line detectors
AtLeastOneHigh(kept) ==
    [k \in 1..Len(kept) |-> [kept[k] EXCEPT !.item.height = Max(1, @)]]
AtLeastOneWide(kept) ==
    [k \in 1..Len(kept) |-> [kept[k] EXCEPT !.item.width = Max(1, @)]]

\* mode 'table': minWidth = max(100, cols * 0.1), minHeight = max(50,
\* rows * 0.05), and at most 95% of the raster
IsTableRegionContour(rect, rows, cols) ==
    /\ rect.width * 10 >= Max(1000, cols)
    /\ rect.height * 100 >= Max(5000, rows * 5)
    /\ rect.width * 100 <= cols * 95
    /\ rect.height * 100 <= rows * 95

\* mode 'lines'
IsHLineContour(rect, rows, cols) ==
    rect.width * 10 > cols \/ rect.width * rect.height > 1000
IsVLineContour(rect, rows, cols) ==
    rect.height * 10 > rows \/ rect.width * rect.height > 1000

\* mode 'cells'
IsCellContour(rect, rows, cols) ==
    /\ rect.width > 15
    /\ rect.height > 15
    /\ rect.width * 2 < cols
    /\ rect.height * 2 < rows

\* detectTablesWithOpenCV: scene is what findContours reports on the raster
detectTablesWithOpenCV(scene, detectionMode, t) ==
    LET rows == scene.rows
        cols == scene.cols
    IN  CASE detectionMode = "table" ->
               ContourBoxes(
                   SelectSeq(Indexed(scene.contours), LAMBDA e :
                       IsTableRegionContour(e.item, rows, cols)),
                   "table-region", t)
          [] detectionMode = "lines" ->
               ContourBoxes(
                   AtLeastOneHigh(SelectSeq(Indexed(scene.hContours),
                       LAMBDA e : IsHLineContour(e.item, rows, cols))),
                   "hline", t)
               \o ContourBoxes(
                      AtLeastOneWide(SelectSeq(Indexed(scene.vContours),
                          LAMBDA e : IsVLineContour(e.item, rows, cols))),
                      "vline", t)
          [] detectionMode = "cells" ->
               ContourBoxes(
                   SelectSeq(Indexed(scene.cellContours), LAMBDA e :
                       IsCellContour(e.item, rows, cols)),
                   "cell-contour", t)
          [] OTHER -> << >>

\* filterLines: sorted, and each kept line at least minDistance =
\* max(10, maxDimension * 0.01) after the last kept one
RECURSIVE FilterSorted(_, _, _)
FilterSorted(lines, maxDimension, filtered) ==
    IF lines = << >> THEN filtered
    ELSE IF (Head(lines) - filtered[Len(filtered)]) * 100
                >= Max(1000, maxDimension)
         THEN FilterSorted(Tail(lines), maxDimension,
                           Append(filtered, Head(lines)))
         ELSE FilterSorted(Tail(lines), maxDimension, filtered)

filterLines(lines, maxDimension) ==
    IF Len(lines) = 0 THEN lines
    ELSE LET sorted == SortSeq(lines, LAMBDA a, b : a < b)
         IN  FilterSorted(Tail(sorted), maxDimension, << Head(sorted) >>)

isValidCell(x, y, width, height, imgWidth, imgHeight) ==
    /\ ~(width < 20 \/ height < 15)
    /\ ~(width * 10 > imgWidth * 9 \/ height * 10 > imgHeight * 9)
    /\ ~(x < 0 \/ y < 0 \/ x + width > imgWidth \/ y + height > imgHeight)
    /\ ~(width * 10 < height \/ width > height * 10)

\* createCellsFromLines: row by row, the valid cells between adjacent lines
RECURSIVE CellsFrom(_, _, _, _, _, _)
CellsFrom(horizontalLines, verticalLines, imgWidth, imgHeight, row, col) ==
    IF row >= Len(horizontalLines) - 1 THEN << >>
    ELSE IF col >= Len(verticalLines) - 1
         THEN CellsFrom(horizontalLines, verticalLines, imgWidth, imgHeight,
                        row + 1, 0)
         ELSE LET cellX == verticalLines[col + 1]
                  cellY == horizontalLines[row + 1]
                  cellWidth == verticalLines[col + 2] - verticalLines[col + 1]
                  cellHeight ==
                      horizontalLines[row + 2] - horizontalLines[row + 1]
                  rest == CellsFrom(horizontalLines, verticalLines, imgWidth,
                                    imgHeight, row, col + 1)
              IN  IF isValidCell(cellX, cellY, cellWidth, cellHeight,
                                 imgWidth, imgHeight)
                  THEN << [x |-> cellX, y |-> cellY, width |-> cellWidth,
                           height |-> cellHeight, row |-> row,
                           col |-> col] >> \o rest
                  ELSE rest

createCellsFromLines(horizontalLines, verticalLines, imgWidth, imgHeight) ==
    IF Len(horizontalLines) < 2 \/ Len(verticalLines) < 2 THEN << >>
    ELSE CellsFrom(horizontalLines, verticalLines, imgWidth, imgHeight, 0, 0)

\* the cells the fallback builds from the scanned lines, in cells mode only
FallbackCells(scene, detectionMode) ==
    IF /\ Len(scene.horizontalLines) >= 2
       /\ Len(scene.verticalLines) >= 2
       /\ detectionMode = "cells"
    THEN createCellsFromLines(filterLines(scene.horizontalLines, scene.rows),
                              filterLines(scene.verticalLines, scene.cols),
                              scene.cols, scene.rows)
    ELSE << >>

\* the boxes the fallback pushes for them
FallbackCellBoxes(scene, detectionMode, t) ==
    LET cells == FallbackCells(scene, detectionMode)
    IN  [k \in 1..Len(cells) |->
            TableBox(MkId("cell", t, cells[k].row, cells[k].col), cells[k].x,
                     cells[k].y, cells[k].width, cells[k].height)]

\* detectTablesFallback: scene is what the row/column scans and the region
\* search report on the raster
detectTablesFallback(scene, detectionMode, t) ==
    LET cellBoxes == FallbackCellBoxes(scene, detectionMode, t)
        regionBoxes ==
            IF detectionMode = "table" \/ Len(cellBoxes) = 0
            THEN [k \in 1..Len(scene.tableRegions) |->
                     LET region == scene.tableRegions[k]
                     IN  TableBox(MkId("table-region", t, k - 1, -1), region.x,
                                  region.y, region.width, region.height)]
            ELSE << >>
    IN  cellBoxes \o regionBoxes

\* detectTables chooses the strategy
UseFallback == ~cvLoaded \/ cvError # Null

detectTables(scene, t) ==
    IF UseFallback THEN detectTablesFallback(scene, mode, t)
    ELSE detectTablesWithOpenCV(scene, mode, t)

\* what the detectors may find on the page on screen
SceneTable ==
    [rows |-> RasterDims.height, cols |-> RasterDims.width,
     contours |-> << Rect(20, 20, 120, 60), Rect(0, 0, 200, 200) >>,
     hContours |-> << Rect(20, 20, 120, 0) >>,
     vContours |-> << Rect(20, 20, 2, 60) >>,
     cellContours |-> << Rect(60, 20, 10, 10), Rect(20, 20, 40, 30) >>,
     horizontalLines |-> << 20, 21, 50, 80 >>,
     verticalLines |-> << 20, 60 >>,
     tableRegions |-> << Rect(20, 20, 120, 60) >>]
SceneBlank ==
    [rows |-> RasterDims.height, cols |-> RasterDims.width,
     contours |-> << >>, hContours |-> << >>, vContours |-> << >>,
     cellContours |-> << >>, horizontalLines |-> << >>,
     verticalLines |-> << >>, tableRegions |-> << >>]
Scenes == {SceneTable, SceneBlank}

\* the loader as the detectors see it, its script elements not followed: the
\* engine's runtime reports that it is initialised
CvInitialized ==
    /\ EventLoopIdle
    /\ cvLoaded' = TRUE
    /\ cvError' = Null
    /\ lastOp' = [op |-> "onRuntimeInitialized"]
    /\ UNCHANGED <<boundingBoxes, now, drawVars, pdfVars, ocrVars, mode,
                   isTableProcessing, tableRuns, cvScripts>>

\* the last delivery source of the engine failed
CvSourcesFailed ==
    /\ EventLoopIdle
    /\ cvError' = [message |-> "all sources failed"]
    /\ lastOp' = [op |-> "loadCvScript"]
    /\ UNCHANGED <<boundingBoxes, now, drawVars, pdfVars, ocrVars, mode,
                   isTableProcessing, tableRuns, cvLoaded, cvScripts>>

setMode ==
    \E value \in TableDetectionMode :
        /\ EventLoopIdle
        /\ PanelsShown
        /\ mode' = value
        /\ lastOp' = [op |-> "setMode"]
        /\ UNCHANGED <<boundingBoxes, now, drawVars, pdfVars, ocrVars,
                       isTableProcessing, tableRuns, cvLoaded, cvError, cvScripts>>

\* what the browser and the engine may answer during one detection: whether
\* the page's img is decoded (complete, naturalWidth > 0), whether
\* canvas.getContext('2d') gives a context, whether an engine call throws
Environments ==
    {[imgDecoded |-> TRUE, ctx |-> TRUE, engineThrows |-> FALSE],
     [imgDecoded |-> FALSE, ctx |-> TRUE, engineThrows |-> FALSE],
     [imgDecoded |-> TRUE, ctx |-> FALSE, engineThrows |-> FALSE],
     [imgDecoded |-> TRUE, ctx |-> TRUE, engineThrows |-> TRUE]}

\* the fallback throws without a canvas context, and in getImageData on the
\* 0 x 0 canvas of an img that is not decoded
detectTablesFallbackThrows(env) == ~env.ctx \/ ~env.imgDecoded

\* the engine strategy throws for an img that is not decoded and when an
\* engine call throws
detectTablesWithOpenCVThrows(env) == ~env.imgDecoded \/ env.engineThrows

detectTablesThrows(env) ==
    IF UseFallback THEN detectTablesFallbackThrows(env)
    ELSE detectTablesWithOpenCVThrows(env)

\* the Detect Tables button (disabled while isProcessing): detectTables sets
\* the flag and runs the chosen detector, which returns boxes or throws
handleDetectTables ==
    \E scene \in Scenes, env \in Environments :
        /\ EventLoopIdle
        /\ PanelsShown
        /\ ~isTableProcessing
        /\ isTableProcessing' = TRUE
        /\ tableRuns' =
              Append(tableRuns,
                     IF detectTablesThrows(env)
                     THEN [error |-> [message |-> "detection failed"],
                           fallback |-> UseFallback]
                     ELSE [boxes |-> detectTables(scene, now),
                           fallback |-> UseFallback,
                           blank |-> scene = SceneBlank])
        /\ lastOp' = [op |-> "detectTables"]
        /\ UNCHANGED <<boundingBoxes, now, drawVars, pdfVars, ocrVars, mode,
                       cvLoaded, cvError, cvScripts>>

\* detectTables returns: finally clears the flag, handleDetectTables adds
\* the boxes
DetectTablesResolved ==
    /\ tableRuns # << >>
    /\ "boxes" \in DOMAIN Head(tableRuns)
    /\ Len(boundingBoxes) + Len(Head(tableRuns).boxes) <= MaxPageBoxes
    /\ isTableProcessing' = FALSE
    /\ boundingBoxes' = addBoundingBoxes(boundingBoxes, Head(tableRuns).boxes)
    /\ tableRuns' = Tail(tableRuns)
    /\ lastOp' = [op |-> "detectTablesResolved", before |-> boundingBoxes,
                   fallback |-> Head(tableRuns).fallback,
                   blank |-> Head(tableRuns).blank,
                   boxes |-> Head(tableRuns).boxes]
    /\ UNCHANGED <<now, drawVars, pdfVars, ocrVars, mode, cvLoaded, cvError, cvScripts>>

\* detectTables throws, had it no finally block: catch records the error and
\* the flag stays set
DetectTablesRejected_NoFinally ==
    /\ tableRuns # << >>
    /\ "error" \in DOMAIN Head(tableRuns)
    /\ cvError' = Head(tableRuns).error
    /\ tableRuns' = Tail(tableRuns)
    /\ lastOp' = [op |-> "detectTablesRejected",
                   fallback |-> Head(tableRuns).fallback, thrown |-> TRUE]
    /\ UNCHANGED <<boundingBoxes, now, drawVars, pdfVars, ocrVars, mode,
                   isTableProcessing, cvLoaded, cvScripts>>

\* detectTables throws: catch records the error, finally clears the flag,
\* and handleDetectTables adds nothing
DetectTablesRejected ==
    /\ tableRuns # << >>
    /\ "error" \in DOMAIN Head(tableRuns)
    /\ isTableProcessing' = FALSE
    /\ cvError' = Head(tableRuns).error
    /\ tableRuns' = Tail(tableRuns)
    /\ lastOp' = [op |-> "detectTablesRejected",
                   fallback |-> Head(tableRuns).fallback, thrown |-> TRUE]
    /\ UNCHANGED <<boundingBoxes, now, drawVars, pdfVars, ocrVars, mode,
                   cvLoaded, cvScripts>>

\* the Clear Table button, disabled unless the statistics count a table box
handleClearTableBoxes ==
    /\ EventLoopIdle
    /\ pdfInfo.isLoaded
    /\ \E i \in 1..Len(boundingBoxes) : boundingBoxes[i].kind = "table"
    /\ boundingBoxes' = removeBoundingBoxesByKind(boundingBoxes, "table")
    /\ lastOp' = [op |-> "removeByKind", before |-> boundingBoxes,
                   kind |-> "table"]
    /\ UNCHANGED <<now, drawVars, pdfVars, ocrVars, tableVars>>

DetectNext ==
    \/ handlePerformOCR
    \/ OcrResolved
    \/ OcrRejected
    \/ updateOCRSettings
    \/ CvInitialized
    \/ CvSourcesFailed
    \/ setMode
    \/ handleDetectTables
    \/ DetectTablesResolved
    \/ DetectTablesRejected
    \/ handleClearTableBoxes
    \/ handleClearAll
    \/ Tick

DetectSpec == PageInit /\ [][DetectNext]_vars

----------------------------------------------------------------------------
\* The engine's cells mode on single contours

\* widths and heights of the contour rectangles tried, around 15 px and
\* around half the raster
CellContourSizes ==
    {10, 14, 15, 16, 60, RasterDims.width \div 2 - 1, RasterDims.width \div 2,
     RasterDims.width \div 2 + 1}

CellContourRects ==
    {Rect(20, 20, width, height) :
        width \in CellContourSizes, height \in CellContourSizes}

\* detectTablesWithOpenCV in mode 'cells' on a raster with one contour
ApplyDetectCellContour ==
    \E rect \in CellContourRects :
        /\ lastOp.op \in {"init", "tick"}
        /\ lastOp' =
              [op |-> "detectCellContour", rect |-> rect,
               boxes |-> detectTablesWithOpenCV(
                             [SceneBlank EXCEPT !.cellContours = << rect >>],
                             "cells", now)]
        /\ UNCHANGED <<boundingBoxes, now, drawVars, pdfVars, ocrVars,
                       tableVars>>

CellContourNext ==
    \/ ApplyDetectCellContour
    \/ Tick

CellContourSpec == PageInit /\ [][CellContourNext]_vars

----------------------------------------------------------------------------
\* How the viewer and the list classify a box (components/PDFViewer,
\* components/BoundingBoxesList)

\* the characters of the strings the id templates and the tests are made of
Chars(s) ==
    CASE s = "bbox" -> <<"b", "b", "o", "x">>
      [] s = "temp" -> <<"t", "e", "m", "p">>
      [] s = "ocr-word-bbox" ->
           <<"o", "c", "r", "-", "w", "o", "r", "d", "-", "b", "b", "o", "x">>
      [] s = "ocr-line-bbox" ->
           <<"o", "c", "r", "-", "l", "i", "n", "e", "-", "b", "b", "o", "x">>
      [] s = "ocr-paragraph-bbox" ->
           <<"o", "c", "r", "-", "p", "a", "r", "a", "g", "r", "a", "p", "h",
             "-", "b", "b", "o", "x">>
      [] s = "ocr-block-bbox" ->
           <<"o", "c", "r", "-", "b", "l", "o", "c", "k", "-", "b", "b", "o",
             "x">>
      [] s = "table-region" ->
           <<"t", "a", "b", "l", "e", "-", "r", "e", "g", "i", "o", "n">>
      [] s = "hline" -> <<"h", "l", "i", "n", "e">>
      [] s = "vline" -> <<"v", "l", "i", "n", "e">>
      [] s = "line" -> <<"l", "i", "n", "e">>
      [] s = "cell" -> <<"c", "e", "l", "l">>
      [] s = "cell-contour" ->
           <<"c", "e", "l", "l", "-", "c", "o", "n", "t", "o", "u", "r">>

\* the id as a string: the template's text, then hyphens and decimal digits
\* (the clock value and the indices), here one of each
IdString(id) == Chars(id.prefix) \o <<"-", "0">>

\* box.id.includes(searchString)
IdIncludes(box, searchString) ==
    LET text == IdString(box.id)
        sought == Chars(searchString)
    IN  \E k \in 1..(Len(text) - Len(sought) + 1) :
            SubSeq(text, k, k + Len(sought) - 1) = sought

\* BoundingBoxesList.getBoxType, with 'line' in place of 'hline' in its first
\* test
getBoxType_AnyLine(box) ==
    IF IdIncludes(box, "line") THEN "Horizontal Line"
    ELSE IF IdIncludes(box, "vline") THEN "Vertical Line"
    ELSE IF IdIncludes(box, "cell") THEN "Table Cell"
    ELSE IF box.kind = "table" THEN "Table Region"
    ELSE IF box.kind = "ocr" THEN "OCR Text"
    ELSE "Manual Box"

\* BoundingBoxesList.getBoxType
getBoxType(box) ==
    IF IdIncludes(box, "hline") THEN "Horizontal Line"
    ELSE IF IdIncludes(box, "vline") THEN "Vertical Line"
    ELSE IF IdIncludes(box, "cell") THEN "Table Cell"
    ELSE IF box.kind = "table" THEN "Table Region"
    ELSE IF box.kind = "ocr" THEN "OCR Text"
    ELSE "Manual Box"

\* BoundingBoxesList.getTypeColor
getTypeColor(box) ==
    IF box.kind = "ocr" THEN "text-amber-600"
    ELSE IF IdIncludes(box, "line") THEN "text-red-600"
    ELSE IF IdIncludes(box, "cell") THEN "text-blue-600"
    ELSE IF box.kind = "table" THEN "text-purple-600"
    ELSE "text-emerald-600"

\* the list's counters of lines, cells and regions among the table boxes
lineBoxes(boxes) ==
    SelectSeq(boxes, LAMBDA box : box.kind = "table" /\ IdIncludes(box, "line"))
cellBoxes(boxes) ==
    SelectSeq(boxes, LAMBDA box : box.kind = "table" /\ IdIncludes(box, "cell"))
regionBoxes(boxes) ==
    SelectSeq(boxes, LAMBDA box :
        /\ box.kind = "table"
        /\ ~IdIncludes(box, "line")
        /\ ~IdIncludes(box, "cell"))

\* PDFViewer.getBoxStyle: the border colour (the background follows it)
getBoxStyle(box) ==
    IF box.kind = "ocr" THEN "#f59e0b"
    ELSE IF IdIncludes(box, "line") THEN "#ef4444"
    ELSE IF IdIncludes(box, "cell") THEN "#3b82f6"
    ELSE IF /\ box.kind = "table"
            /\ ~IdIncludes(box, "line")
            /\ ~IdIncludes(box, "cell")
         THEN "#8b5cf6"
    ELSE "#10b981"

\* PDFViewer.getBoxLabel: a glyph for lines and cells, else the 1-based number
getBoxLabel(box, index) ==
    IF IdIncludes(box, "hline") THEN "hline glyph"
    ELSE IF IdIncludes(box, "vline") THEN "vline glyph"
    ELSE IF IdIncludes(box, "cell") THEN "cell glyph"
    ELSE "number"

\* PDFViewer.getLabelColor
getLabelColor(box) ==
    IF box.kind = "ocr" THEN "#f59e0b"
    ELSE IF IdIncludes(box, "line") THEN "#ef4444"
    ELSE IF IdIncludes(box, "cell") THEN "#3b82f6"
    ELSE IF box.kind = "table" THEN "#8b5cf6"
    ELSE "#10b981"

\* the role a detector's branch gives the boxes it pushes, by the template
\* that branch writes: the region searches 'table-region', the horizontal
\* kernel 'hline', the vertical kernel 'vline', the cell searches 'cell' and
\* 'cell-contour'
DetectedRole(box) ==
    CASE box.id.prefix = "table-region" -> "region"
      [] box.id.prefix = "hline" -> "hline"
      [] box.id.prefix = "vline" -> "vline"
      [] box.id.prefix \in {"cell", "cell-contour"} -> "cell"
      [] OTHER -> "none"

----------------------------------------------------------------------------
\* The fallback's scans on synthetic images of dark bands

\* side of the square test images and the extent of their bands
BandImageSize == 80
BandFrom == 5
BandTo == 76

\* an image with horizontal bands (rows start..start+thickness-1, dark from
\* column BandFrom to BandTo) and vertical bands (the same, transposed)
BandImage(starts, hThickness, vThickness) ==
    [width |-> BandImageSize, height |-> BandImageSize,
     hBands |-> {[start |-> s, thickness |-> hThickness] : s \in starts},
     vBands |-> {[start |-> s, thickness |-> vThickness] : s \in starts}]

InBand(bands, at, along) ==
    /\ along >= BandFrom /\ along <= BandTo
    /\ \E b \in bands : at >= b.start /\ at < b.start + b.thickness

\* gray < 128 at pixel (x, y)
IsDark(image, x, y) ==
    InBand(image.hBands, y, x) \/ InBand(image.vBands, x, y)

\* maxConsecutive >= minLineLength in row y: the longest run of dark pixels
\* reaches the length exactly when some run of that length is all dark
HasDarkRunInRow(image, y, minLineLength) ==
    \E from \in 0..(image.width - minLineLength) :
        \A x \in from..(from + minLineLength - 1) : IsDark(image, x, y)

\* the same in column x
HasDarkRunInColumn(image, x, minLineLength) ==
    \E from \in 0..(image.height - minLineLength) :
        \A y \in from..(from + minLineLength - 1) : IsDark(image, x, y)

\* Math.ceil(size * 0.3): the least whole run length that is >= size * 0.3
MinLineLength(size) == (size * 3 + 9) \div 10

\* detectHorizontalLines: the rows, in ascending order, with a dark run of
\* at least minLineLength = width * 0.3
detectHorizontalLines(image) ==
    SelectSeq([i \in 1..image.height |-> i - 1], LAMBDA y :
        HasDarkRunInRow(image, y, MinLineLength(image.width)))

\* detectVerticalLines: the columns with a dark run of at least height * 0.3
detectVerticalLines(image) ==
    SelectSeq([i \in 1..image.width |-> i - 1], LAMBDA x :
        HasDarkRunInColumn(image, x, MinLineLength(image.height)))

\* what the two scans report on an image
SceneOfBandImage(image) ==
    [rows |-> image.height, cols |-> image.width,
     horizontalLines |-> detectHorizontalLines(image),
     verticalLines |-> detectVerticalLines(image)]

\* images with exactly 3 horizontal and 3 vertical bands
BandStarts == {{5, 35, 65}, {8, 30, 60}, {6, 36, 64}}
BandThicknesses == {1, 2, 5, 10, 11}
BandImages ==
    {BandImage(starts, hThickness, vThickness) :
        starts \in BandStarts, hThickness \in BandThicknesses,
        vThickness \in BandThicknesses}

\* the fallback in cells mode applied to a band image
ApplyFallbackCells ==
    \E image \in BandImages :
        /\ lastOp.op \in {"init", "tick"}
        /\ lastOp' =
              [op |-> "fallbackCells", image |-> image,
               cells |-> FallbackCells(SceneOfBandImage(image), "cells"),
               boxes |-> FallbackCellBoxes(SceneOfBandImage(image), "cells",
                                           now)]
        /\ UNCHANGED <<boundingBoxes, now, drawVars, pdfVars, ocrVars,
                       tableVars>>

FallbackNext ==
    \/ ApplyFallbackCells
    \/ Tick

FallbackSpec == PageInit /\ [][FallbackNext]_vars

----------------------------------------------------------------------------
\* The loader of the morphological engine: the effect of useTableDetection on
\* [cvLoaded], followed script element by script element

\* the delivery sources, by their index in cvSources
CvSources == 0..2

\* window.cv is defined once a script that exposes the engine has run
WindowCv(scripts) == \E k \in 1..Len(scripts) : scripts[k].exposes

\* a script element: the effect run that made it (1 on mount, 2 after a
\* change of cvLoaded), whether the engine was ready when it was appended,
\* whether its setTimeout is pending
CvScript(source, run, ready) ==
    [source |-> source, run |-> run, state |-> "loading", exposes |-> FALSE,
     timer |-> FALSE, afterReady |-> ready]

\* the effect body, loadCvScript(0); ready is the cvLoaded it runs after
CvLoaderEffect(scripts, run, ready) ==
    Append(scripts, CvScript(0, run, ready))

\* the effect runs again after a render in which cvLoaded has changed
CvLoaderEffectRerun(scripts, ready) ==
    IF cvLoaded # ready THEN CvLoaderEffect(scripts, 2, ready) ELSE scripts

\* the component mounts and the effect runs for the first time
CvLoaderMount ==
    /\ cvScripts = << >>
    /\ cvScripts' = CvLoaderEffect(cvScripts, 1, cvLoaded)
    /\ lastOp' = [op |-> "cvLoaderEffect"]
    /\ UNCHANGED <<boundingBoxes, now, drawVars, pdfVars, ocrVars, mode,
                   isTableProcessing, tableRuns, cvLoaded, cvError>>

\* currentSourceIndex++; loadCvScript(currentSourceIndex) after script k,
\* whose new state is given
loadNextCvScript(k, state) ==
    LET script == cvScripts[k]
        done == [cvScripts EXCEPT ![k].state = state]
    IN  IF script.source + 1 \in CvSources
        THEN /\ cvScripts' = Append(done, CvScript(script.source + 1,
                                                   script.run, cvLoaded))
             /\ UNCHANGED cvError
        ELSE /\ cvScripts' = done
             /\ cvError' = [message |-> "all sources failed"]

\* cvScript.onload: with window.cv present the handler is installed and the
\* timeout armed, without it the next source is tried
cvScriptOnload ==
    \E k \in 1..Len(cvScripts), exposes \in BOOLEAN :
        /\ cvScripts[k].state = "loading"
        /\ IF exposes \/ WindowCv(cvScripts)
           THEN /\ cvScripts' = [cvScripts EXCEPT ![k].state = "installed",
                                                  ![k].exposes = exposes,
                                                  ![k].timer = TRUE]
                /\ UNCHANGED cvError
           ELSE loadNextCvScript(k, "loaded without cv")
        /\ lastOp' = [op |-> "cvScript.onload"]
        /\ UNCHANGED <<boundingBoxes, now, drawVars, pdfVars, ocrVars, mode,
                       isTableProcessing, tableRuns, cvLoaded>>

\* cvScript.onerror
cvScriptOnerror ==
    \E k \in 1..Len(cvScripts) :
        /\ cvScripts[k].state = "loading"
        /\ loadNextCvScript(k, "failed")
        /\ lastOp' = [op |-> "cvScript.onerror"]
        /\ UNCHANGED <<boundingBoxes, now, drawVars, pdfVars, ocrVars, mode,
                       isTableProcessing, tableRuns, cvLoaded>>

\* the handler installed by script k is called by the engine's runtime
onRuntimeInitialized ==
    \E k \in 1..Len(cvScripts) :
        /\ cvScripts[k].state = "installed"
        /\ cvLoaded' = TRUE
        /\ cvError' = Null
        /\ cvScripts' = CvLoaderEffectRerun(
                            [cvScripts EXCEPT ![k].state = "initialized"], TRUE)
        /\ lastOp' = [op |-> "onRuntimeInitialized"]
        /\ UNCHANGED <<boundingBoxes, now, drawVars, pdfVars, ocrVars, mode,
                       isTableProcessing, tableRuns>>

\* the 20 s timeout armed by script k: its `!cvLoaded` reads the cvLoaded of
\* the render its effect run was made in
cvInitTimeout ==
    \E k \in 1..Len(cvScripts) :
        /\ cvScripts[k].timer
        /\ IF cvScripts[k].run = 1
           THEN /\ cvLoaded' = TRUE
                /\ cvError' = Null
                /\ cvScripts' = CvLoaderEffectRerun(
                                    [cvScripts EXCEPT ![k].timer = FALSE], TRUE)
           ELSE /\ cvScripts' = [cvScripts EXCEPT ![k].timer = FALSE]
                /\ UNCHANGED <<cvLoaded, cvError>>
        /\ lastOp' = [op |-> "cvInitTimeout"]
        /\ UNCHANGED <<boundingBoxes, now, drawVars, pdfVars, ocrVars, mode,
                       isTableProcessing, tableRuns>>

LoaderNext ==
    \/ CvLoaderMount
    \/ cvScriptOnload
    \/ cvScriptOnerror
    \/ onRuntimeInitialized
    \/ cvInitTimeout

LoaderSpec == Init /\ [][LoaderNext]_vars

----------------------------------------------------------------------------
\* The PDF hook (usePDF): loading files and rendering pages

RemoveAt(seq, i) == SubSeq(seq, 1, i - 1) \o SubSeq(seq, i + 1, Len(seq))

\* convertPageToImage up to its first await: the renders it starts (one or
\* none), reading document and totalPages of the render it was created in
convertPageToImage(info, pageNum) ==
    IF info.document = Null THEN << >>
    ELSE IF pageNum < 1 \/ pageNum > info.totalPages THEN << >>
    ELSE << [document |-> info.document, pageNum |-> pageNum] >>

\* the effect on [document, currentPage, isLoaded, convertPageToImage], run
\* after a state change from prev to info
RenderEffect(prev, info) ==
    IF /\ \/ prev.document # info.document
          \/ prev.currentPage # info.currentPage
          \/ prev.isLoaded # info.isLoaded
          \/ prev.totalPages # info.totalPages
       /\ info.document # Null
       /\ info.isLoaded
    THEN convertPageToImage(info, info.currentPage)
    ELSE << >>

\* loadPDFFile, did it start the new file with an empty store
loadPDFFile_NewStore ==
    \E numPages \in 1..MaxPages :
        /\ docCount < MaxLoads
        /\ docCount' = docCount + 1
        /\ LET file == [name |-> docCount + 1]
               info == [pdfInfo EXCEPT !.file = file, !.isLoaded = FALSE,
                                       !.imageDataUrl = Null]
           IN  /\ pdfInfo' = info
               /\ loads' = Append(loads, [file |-> file,
                                          pdf |-> [id |-> docCount + 1,
                                                   numPages |-> numPages]])
               /\ Len(renders) + Len(RenderEffect(pdfInfo, info)) <= MaxRenders
               /\ renders' = renders \o RenderEffect(pdfInfo, info)
        /\ lastOp' = [op |-> "loadPDFFile"]
        /\ boundingBoxes' = << >>
        /\ UNCHANGED <<now, drawVars, ocrVars, tableVars>>

\* a PDF file is dropped or chosen: loadPDFFile up to its first await
loadPDFFile ==
    \E numPages \in 1..MaxPages :
        /\ docCount < MaxLoads
        /\ docCount' = docCount + 1
        /\ LET file == [name |-> docCount + 1]
               info == [pdfInfo EXCEPT !.file = file, !.isLoaded = FALSE,
                                       !.imageDataUrl = Null]
           IN  /\ pdfInfo' = info
               /\ loads' = Append(loads, [file |-> file,
                                          pdf |-> [id |-> docCount + 1,
                                                   numPages |-> numPages]])
               /\ Len(renders) + Len(RenderEffect(pdfInfo, info)) <= MaxRenders
               /\ renders' = renders \o RenderEffect(pdfInfo, info)
        /\ lastOp' = [op |-> "loadPDFFile"]
        /\ UNCHANGED <<boundingBoxes, now, drawVars, ocrVars, tableVars>>

\* getDocument answers for one of the files being read
LoadResolved ==
    \E i \in 1..Len(loads) :
        /\ LET pdf == loads[i].pdf
               info == [pdfInfo EXCEPT !.document = pdf,
                                       !.totalPages = pdf.numPages,
                                       !.currentPage = 1, !.isLoaded = TRUE]
           IN  /\ pdfInfo' = info
               /\ Len(renders) + Len(RenderEffect(pdfInfo, info)) <= MaxRenders
               /\ renders' = renders \o RenderEffect(pdfInfo, info)
        /\ loads' = RemoveAt(loads, i)
        /\ lastOp' = [op |-> "loadResolved"]
        /\ UNCHANGED <<boundingBoxes, now, drawVars, docCount, ocrVars,
                       tableVars>>

\* reading or parsing one of the files fails: the error is logged
LoadRejected ==
    \E i \in 1..Len(loads) :
        /\ loads' = RemoveAt(loads, i)
        /\ lastOp' = [op |-> "loadRejected", thrown |-> FALSE]
        /\ UNCHANGED <<boundingBoxes, now, drawVars, pdfInfo, renders,
                       docCount, ocrVars, tableVars>>

\* the Previous / Next buttons, shown for a loaded file of several pages
changePage ==
    \E pageNum \in {pdfInfo.currentPage - 1, pdfInfo.currentPage + 1} :
        /\ pdfInfo.isLoaded /\ pdfInfo.totalPages > 1
        /\ pageNum = pdfInfo.currentPage - 1 => pdfInfo.currentPage # 1
        /\ pageNum = pdfInfo.currentPage + 1
              => pdfInfo.currentPage # pdfInfo.totalPages
        /\ LET info == IF pageNum >= 1 /\ pageNum <= pdfInfo.totalPages
                       THEN [pdfInfo EXCEPT !.currentPage = pageNum]
                       ELSE pdfInfo
           IN  /\ pdfInfo' = info
               /\ Len(renders) + Len(RenderEffect(pdfInfo, info)) <= MaxRenders
               /\ renders' = renders \o RenderEffect(pdfInfo, info)
        /\ lastOp' = [op |-> "changePage", pageNum |-> pageNum]
        /\ UNCHANGED <<boundingBoxes, now, drawVars, loads, docCount, ocrVars,
                       tableVars>>

\* one of the awaited renders finishes: convertPageToImage stores the page
\* number it was called with, the image and its size
RenderResolved ==
    \E i \in 1..Len(renders) :
        LET job == renders[i]
            info == [pdfInfo EXCEPT
                        !.currentPage = job.pageNum,
                        !.imageDataUrl = [doc |-> job.document.id,
                                          page |-> job.pageNum],
                        !.originalDimensions = RasterDims]
            rest == RemoveAt(renders, i)
        IN  /\ pdfInfo' = info
            /\ Len(rest) + Len(RenderEffect(pdfInfo, info)) <= MaxRenders
            /\ renders' = rest \o RenderEffect(pdfInfo, info)
            /\ lastOp' = [op |-> "renderResolved", job |-> job]
            /\ UNCHANGED <<boundingBoxes, now, drawVars, loads, docCount,
                           ocrVars, tableVars>>

\* one of the awaited renders fails: the error is logged
RenderRejected ==
    \E i \in 1..Len(renders) :
        /\ renders' = RemoveAt(renders, i)
        /\ lastOp' = [op |-> "renderRejected", thrown |-> FALSE]
        /\ UNCHANGED <<boundingBoxes, now, drawVars, pdfInfo, loads, docCount,
                       ocrVars, tableVars>>

PdfNext ==
    \/ loadPDFFile
    \/ LoadResolved
    \/ LoadRejected
    \/ changePage
    \/ RenderResolved
    \/ RenderRejected

PdfSpec == Init /\ [][PdfNext]_vars

----------------------------------------------------------------------------
\* Page navigation in a loaded file of several pages

\* pages of the file being navigated
NavPages == 4

NavPdfInfo ==
    [LoadedPdfInfo EXCEPT !.document = [id |-> 1, numPages |-> NavPages],
                          !.totalPages = NavPages]

\* the file is loaded and its first page rendered
NavInit ==
    /\ boundingBoxes = << >>
    /\ lastOp = [op |-> "init"]
    /\ now = 0
    /\ isDrawing = FALSE
    /\ startPoint = Null
    /\ currentBox = Null
    /\ selectedUnit = "px"
    /\ pdfInfo = NavPdfInfo
    /\ loads = << >>
    /\ renders = << >>
    /\ docCount = 1
    /\ settings = InitialSettings
    /\ textData = Null
    /\ isOcrProcessing = FALSE
    /\ ocrRuns = << >>
    /\ mode = "table"
    /\ isTableProcessing = FALSE
    /\ tableRuns = << >>
    /\ cvLoaded = FALSE
    /\ cvError = Null
    /\ cvScripts = << >>

NavNext ==
    \/ changePage
    \/ RenderResolved
    \/ RenderRejected

\* every render that was started completes: a render of pdf.js that is
\* awaited is eventually answered, and it need not fail
NavSpec == NavInit /\ [][NavNext]_vars /\ WF_vars(RenderResolved)

----------------------------------------------------------------------------
\* The page across page changes and file loads

\* the payload exportBoundingBoxes writes: file name, current page and the
\* boxes in the three units
ExportData(boxes, info) ==
    [filename |-> IF info.file = Null THEN "unknown.pdf" ELSE info.file.name,
     page |-> info.currentPage,
     dpi |-> RasterDpi,
     totalBoundingBoxes |-> Len(boxes),
     boundingBoxes |-> exportBoundingBoxes(boxes)]

\* the Export BBoxes button: shown once a file is loaded, disabled on an
\* empty store
handleExportBoundingBoxes ==
    /\ EventLoopIdle
    /\ pdfInfo.isLoaded
    /\ Len(boundingBoxes) # 0
    /\ lastOp' = [op |-> "exportBoundingBoxes",
                   data |-> ExportData(boundingBoxes, pdfInfo)]
    /\ UNCHANGED <<boundingBoxes, now, drawVars, pdfVars, ocrVars, tableVars>>

DocumentNext ==
    \/ handleMouseDown
    \/ handleMouseMove
    \/ handleMouseUp
    \/ loadPDFFile
    \/ LoadResolved
    \/ LoadRejected
    \/ changePage
    \/ RenderResolved
    \/ RenderRejected
    \/ handleExportBoundingBoxes

DocumentSpec == PageInit /\ [][DocumentNext]_vars

----------------------------------------------------------------------------
\* Boxes built outside the image-pdf page: the root PDF tool (PDFBboxTool)
\* and the conversion helpers of utils/tableDetectionUtils

\* the root tool's zoom, which the model leaves at its initial value
InitialZoom == 1

\* PDFBboxTool.convertCanvasToPDF: canvas coordinates times viewport(1) /
\* viewport(zoom)
convertCanvasToPDF(pdfDocument, canvasX, canvasY, canvasWidth, canvasHeight) ==
    IF pdfDocument = Null THEN Null
    ELSE CoordinateConversion(Rat(canvasX, InitialZoom),
                              Rat(canvasY, InitialZoom),
                              Rat(canvasWidth, InitialZoom),
                              Rat(canvasHeight, InitialZoom))

\* the root tool with a one-page file loaded and drawn
RootInit ==
    /\ boundingBoxes = << >>
    /\ lastOp = [op |-> "init"]
    /\ now = 0
    /\ isDrawing = FALSE
    /\ startPoint = Null
    /\ currentBox = Null
    /\ selectedUnit = "px"
    /\ pdfInfo = [InitialPdfInfo EXCEPT !.file = [name |-> 1],
                                        !.document = [id |-> 1, numPages |-> 1],
                                        !.totalPages = 1, !.isLoaded = TRUE]
    /\ loads = << >>
    /\ renders = << >>
    /\ docCount = 1
    /\ settings = InitialSettings
    /\ textData = Null
    /\ isOcrProcessing = FALSE
    /\ ocrRuns = << >>
    /\ mode = "table"
    /\ isTableProcessing = FALSE
    /\ tableRuns = << >>
    /\ cvLoaded = FALSE
    /\ cvError = Null
    /\ cvScripts = << >>

\* mouse positions on the root tool's overlay canvas
RootPoints == {[x |-> 0, y |-> 0], [x |-> 12, y |-> 11]}

RootMouseDown ==
    \E p \in RootPoints :
        /\ isDrawing' = TRUE
        /\ startPoint' = p
        /\ lastOp' = [op |-> "root.handleMouseDown"]
        /\ UNCHANGED <<boundingBoxes, now, currentBox, selectedUnit, pdfVars,
                       ocrVars, tableVars>>

RootMouseMove ==
    \E p \in RootPoints :
        /\ isDrawing /\ startPoint # Null
        /\ LET r == DragRect(startPoint, p)
           IN  currentBox' = MkBox(MkId("temp", now, -1, -1), r.x, r.y,
                                   r.width, r.height, selectedUnit, NoKind)
        /\ lastOp' = [op |-> "root.handleMouseMove"]
        /\ UNCHANGED <<boundingBoxes, now, isDrawing, startPoint,
                       selectedUnit, pdfVars, ocrVars, tableVars>>

\* handleMouseUp up to its await: the call keeps the currentBox, selectedUnit
\* and document of the render it was created in
RootMouseUp ==
    /\ isDrawing /\ startPoint # Null /\ currentBox # Null
    /\ Len(renders) < MaxPendingReleases
    /\ renders' = Append(renders, [currentBox |-> currentBox,
                                   selectedUnit |-> selectedUnit,
                                   pdfDocument |-> pdfInfo.document])
    /\ lastOp' = [op |-> "root.handleMouseUp"]
    /\ UNCHANGED <<boundingBoxes, now, drawVars, pdfInfo, loads, docCount,
                   ocrVars, tableVars>>

\* the box the rest of handleMouseUp appends, or Null
RootBox(job, coords, t) ==
    IF coords # Null /\ job.currentBox.width > 5 /\ job.currentBox.height > 5
    THEN MkBox(MkId("bbox", t, -1, -1), coords.pt.x, coords.pt.y,
               coords.pt.width, coords.pt.height, job.selectedUnit, NoKind)
    ELSE Null

\* the page is fetched and handleMouseUp runs on
RootMouseUpResumed ==
    /\ renders # << >>
    /\ LET job == Head(renders)
           coords == convertCanvasToPDF(job.pdfDocument, job.currentBox.x,
                                        job.currentBox.y, job.currentBox.width,
                                        job.currentBox.height)
           newBox == RootBox(job, coords, now)
       IN  /\ newBox # Null => Len(boundingBoxes) < MaxPageBoxes
           /\ boundingBoxes' = IF newBox # Null
                                THEN Append(boundingBoxes, newBox)
                                ELSE boundingBoxes
           /\ lastOp' = [op |-> "root.addBox", coords |-> coords,
                          box |-> newBox]
    /\ renders' = Tail(renders)
    /\ isDrawing' = FALSE
    /\ startPoint' = Null
    /\ currentBox' = Null
    /\ UNCHANGED <<now, selectedUnit, pdfInfo, loads, docCount, ocrVars,
                   tableVars>>

RootSetSelectedUnit ==
    \E value \in Unit :
        /\ selectedUnit' = value
        /\ lastOp' = [op |-> "root.setSelectedUnit"]
        /\ UNCHANGED <<boundingBoxes, now, isDrawing, startPoint, currentBox,
                       pdfVars, ocrVars, tableVars>>

\* the converters a caller may pass to the helpers: the raster-to-point
\* conversion, and one that has no page to convert for
Converters == {"imageCoordsToPDFPoints", "none"}

\* convertToPDFCoords(x, y, width, height) for a converter so named
Convert(convertToPDFCoords, x, y, width, height) ==
    IF convertToPDFCoords = "none" THEN Null
    ELSE imageCoordsToPDFPoints(Rat(x, 1), Rat(y, 1), Rat(width, 1),
                                Rat(height, 1))

convertTableRegionToBoundingBox(region, convertToPDFCoords, id, unit) ==
    LET coords == Convert(convertToPDFCoords, region.x, region.y, region.width,
                          region.height)
    IN  IF coords = Null THEN Null
        ELSE MkBox(id, coords.pt.x, coords.pt.y, coords.pt.width,
                   coords.pt.height, unit, "table")

convertTableCellToBoundingBox(cell, convertToPDFCoords, unit, t) ==
    LET coords == Convert(convertToPDFCoords, cell.x, cell.y, cell.width,
                          cell.height)
    IN  IF coords = Null THEN Null
        ELSE MkBox(MkId("cell", t, cell.row, cell.col), coords.pt.x,
                   coords.pt.y, coords.pt.width, coords.pt.height, unit,
                   "table")

\* the width and height a line is converted with; an absent width or height
\* is written 0, and `line.width || 1` reads both as 1
LineWidth(line) ==
    IF line.type = "horizontal"
    THEN (IF line.width = 0 THEN 1 ELSE line.width) ELSE 1
LineHeight(line) ==
    IF line.type = "vertical"
    THEN (IF line.height = 0 THEN 1 ELSE line.height) ELSE 1

convertTableLineToBoundingBox(line, convertToPDFCoords, id, unit) ==
    LET coords == Convert(convertToPDFCoords, line.x, line.y, LineWidth(line),
                          LineHeight(line))
    IN  IF coords = Null THEN Null
        ELSE MkBox(id, coords.pt.x, coords.pt.y, coords.pt.width,
                   coords.pt.height, unit, "table")

\* the helpers are pure: what they return does not depend on the tool's
\* state, so they are applied while the tool is at rest with an empty store
AtRest == ~isDrawing /\ renders = << >> /\ boundingBoxes = << >>

\* arguments for the helpers
RegionInputs == {Rect(20, 20, 120, 60), Rect(0, 0, 200, 200)}
CellInputs ==
    {[x |-> 20, y |-> 20, width |-> 40, height |-> 30, row |-> 0, col |-> 0],
     [x |-> 60, y |-> 50, width |-> 40, height |-> 30, row |-> 1, col |-> 1]}
LineInputs ==
    {[x |-> 20, y |-> 50, width |-> 120, height |-> 0, type |-> "horizontal"],
     [x |-> 60, y |-> 20, width |-> 0, height |-> 60, type |-> "vertical"]}

ApplyConvertTableRegion ==
    \E region \in RegionInputs, unit \in Unit, converter \in Converters :
        /\ AtRest
        /\ lastOp' =
              [op |-> "convertTableRegionToBoundingBox",
               coords |-> Convert(converter, region.x, region.y, region.width,
                                  region.height),
               box |-> convertTableRegionToBoundingBox(
                           region, converter,
                           MkId("table-region", now, 0, -1), unit)]
        /\ UNCHANGED <<boundingBoxes, now, drawVars, pdfVars, ocrVars,
                       tableVars>>

ApplyConvertTableCell ==
    \E cell \in CellInputs, unit \in Unit, converter \in Converters :
        /\ AtRest
        /\ lastOp' =
              [op |-> "convertTableCellToBoundingBox",
               coords |-> Convert(converter, cell.x, cell.y, cell.width,
                                  cell.height),
               box |-> convertTableCellToBoundingBox(cell, converter, unit,
                                                     now)]
        /\ UNCHANGED <<boundingBoxes, now, drawVars, pdfVars, ocrVars,
                       tableVars>>

ApplyConvertTableLine ==
    \E line \in LineInputs, unit \in Unit, converter \in Converters :
        /\ AtRest
        /\ lastOp' =
              [op |-> "convertTableLineToBoundingBox",
               coords |-> Convert(converter, line.x, line.y, LineWidth(line),
                                  LineHeight(line)),
               box |-> convertTableLineToBoundingBox(
                           line, converter, MkId("hline", now, 0, -1), unit)]
        /\ UNCHANGED <<boundingBoxes, now, drawVars, pdfVars, ocrVars,
                       tableVars>>

ProducerNext ==
    \/ RootMouseDown
    \/ RootMouseMove
    \/ RootMouseUp
    \/ RootMouseUpResumed
    \/ RootSetSelectedUnit
    \/ ApplyConvertTableRegion
    \/ ApplyConvertTableCell
    \/ ApplyConvertTableLine

ProducerSpec == RootInit /\ [][ProducerNext]_vars

----------------------------------------------------------------------------
\* The whole page, one activity at a time: a drag gesture, an OCR run or a
\* table detection is started only when no other one is under way, with the
\* clock standing still

Quiescent == ~isDrawing /\ ocrRuns = << >> /\ tableRuns = << >>

ToolNext ==
    \/ Quiescent /\ handleMouseDown
    \/ handleMouseMove
    \/ handleMouseUp
    \/ Quiescent /\ setSelectedUnit
    \/ Quiescent /\ handleClearAll
    \/ Quiescent /\ handlePerformOCR
    \/ OcrResolved
    \/ OcrRejected
    \/ Quiescent /\ CvInitialized
    \/ Quiescent /\ CvSourcesFailed
    \/ Quiescent /\ setMode
    \/ Quiescent /\ handleDetectTables
    \/ DetectTablesResolved
    \/ DetectTablesRejected

ToolSpec == PageInit /\ [][ToolNext]_vars

\* the page as the viewer and the list show it: boxes drawn, recognised at
\* any level and detected in any mode by either strategy
ViewerNext ==
    \/ Quiescent /\ handleMouseDown
    \/ handleMouseMove
    \/ handleMouseUp
    \/ Quiescent /\ handlePerformOCR
    \/ OcrResolved
    \/ OcrRejected
    \/ Quiescent /\ updateOCRSettings
    \/ Quiescent /\ CvInitialized
    \/ Quiescent /\ setMode
    \/ Quiescent /\ handleDetectTables
    \/ DetectTablesResolved
    \/ DetectTablesRejected

ViewerSpec == PageInit /\ [][ViewerNext]_vars

----------------------------------------------------------------------------
\* Properties of the page

\* C1: in the image-pdf tool every box in the store has unit 'pt', whatever
\* display unit is or was selected and whichever producer (drag-release, OCR
\* run, table detection by either strategy in any mode) added it
C1_StoredUnitIsPoint ==
    \A i \in 1..Len(boundingBoxes) : boundingBoxes[i].unit = "pt"

\* a drag-release has just added a manual box behind a detected one while
\* millimetres are selected for display
C1_Witness ==
    /\ lastOp.op = "handleMouseUp"
    /\ selectedUnit = "mm"
    /\ Len(boundingBoxes) = Len(lastOp.before) + 1
    /\ boundingBoxes[Len(boundingBoxes)].kind = "manual"
    /\ \E i \in 1..Len(boundingBoxes) : boundingBoxes[i].kind \in {"ocr", "table"}

\* C2: the ids of the stored boxes are pairwise distinct in every reachable
\* state, although the clock may give two operations the same value
C2_IdsPairwiseDistinct ==
    \A i, j \in 1..Len(boundingBoxes) :
        i # j => boundingBoxes[i].id # boundingBoxes[j].id

\* C3: whenever totalPages > 0 the current page lies in 1..totalPages, under
\* every interleaving of file loads, page changes and render completions
C3_CurrentPageInRange ==
    pdfInfo.totalPages > 0
        => (1 <= pdfInfo.currentPage /\ pdfInfo.currentPage <= pdfInfo.totalPages)

\* C4: at no time are two detection/OCR operations in flight together
C4_AtMostOneActive == Len(ocrRuns) + Len(tableRuns) <= 1

\* the raw screen extents of the drag the last mouse-up ended
LastDragWidth == Abs(lastOp.p.x - lastOp.start.x)
LastDragHeight == Abs(lastOp.p.y - lastOp.start.y)

\* C5: a mouse-up whose drag rectangle is less than 5 wide or less than 5
\* high on screen leaves the store exactly as it was
C5_SmallDragAddsNothing ==
    (/\ lastOp.op = "handleMouseUp"
     /\ (LastDragWidth < 5 \/ LastDragHeight < 5))
        => boundingBoxes = lastOp.before

\* a drag wide enough but less than 5 high has just been released over a
\* store that already holds a box
C5_Witness ==
    /\ lastOp.op = "handleMouseUp"
    /\ LastDragWidth > 5
    /\ LastDragHeight < 5
    /\ Len(lastOp.before) > 0
    /\ boundingBoxes = lastOp.before

\* the steps that hand out a finished box, with the conversion it came from
ProducerOps ==
    {"root.addBox", "convertTableRegionToBoundingBox",
     "convertTableCellToBoundingBox", "convertTableLineToBoundingBox"}

\* C7: the unit field of every produced box names the unit in which its x,
\* y, width and height are expressed (the form of the conversion it carries)
C7_UnitNamesValues ==
    (lastOp.op \in ProducerOps /\ lastOp.box # Null)
        => [x |-> lastOp.box.x, y |-> lastOp.box.y,
            width |-> lastOp.box.width, height |-> lastOp.box.height]
               = lastOp.coords[lastOp.box.unit]

----------------------------------------------------------------------------
\* Properties of the store

\* s is an order-preserving selection of the elements of t
RECURSIVE IsSubseq(_, _)
IsSubseq(s, t) ==
    IF s = << >> THEN TRUE
    ELSE IF t = << >> THEN FALSE
    ELSE IF Head(s) = Head(t) THEN IsSubseq(Tail(s), Tail(t))
    ELSE IsSubseq(s, Tail(t))

IsStoreOp == lastOp.op \in {"add", "addMany", "remove", "removeByKind", "clear", "update"}

\* C6 (as claimed): every stored box has width >= 0 and height >= 0 after any
\* sequence of store operations, update(id, partialFields) included.
C6_NonNegativeExtents ==
    \A i \in 1..Len(boundingBoxes) :
        boundingBoxes[i].width >= 0 /\ boundingBoxes[i].height >= 0

\* C8: the store preserves insertion order.  add / addMany leave the old
\* store as a prefix and append their argument in its own order; remove,
\* removeByKind and clear leave an order-preserving selection of the old
\* store; update leaves every box at its position.
C8_InsertionOrderPreserved ==
    IsStoreOp =>
        LET old == lastOp.before
            new == boundingBoxes
        IN  /\ lastOp.op = "add" =>
                /\ Len(new) = Len(old) + 1
                /\ SubSeq(new, 1, Len(old)) = old
                /\ new[Len(new)] = lastOp.box
            /\ lastOp.op = "addMany" =>
                /\ Len(new) = Len(old) + Len(lastOp.boxes)
                /\ SubSeq(new, 1, Len(old)) = old
                /\ SubSeq(new, Len(old) + 1, Len(new)) = lastOp.boxes
            /\ lastOp.op \in {"remove", "removeByKind", "clear"} =>
                IsSubseq(new, old)
            /\ lastOp.op = "update" =>
                /\ Len(new) = Len(old)
                /\ \A i \in 1..Len(old) :
                      new[i] = old[i] \/ old[i].id = lastOp.id

\* addMany has appended two boxes behind a box that was already stored
C8_Witness ==
    /\ lastOp.op = "addMany"
    /\ Len(lastOp.before) = 1
    /\ Len(boundingBoxes) = 3

\* C9 (as claimed): update(id, partialFields) never changes the id of a
\* stored box, changes only the named fields of the boxes whose id matches,
\* and leaves other boxes, the number of boxes and the order as they were.
C9_UpdateFrame ==
    lastOp.op = "update" =>
        LET old == lastOp.before
            new == boundingBoxes
        IN  /\ Len(new) = Len(old)
            /\ \A i \in 1..Len(old) :
                  /\ new[i].id = old[i].id
                  /\ old[i].id # lastOp.id => new[i] = old[i]
                  /\ \A f \in BoxFields \ DOMAIN lastOp.updates :
                        new[i][f] = old[i][f]

\* C10: removeByKind(k) removes exactly the boxes of kind k: none of kind k
\* is left, what is left is an order-preserving selection of the old store,
\* and as many boxes are left as the old store had of another or of no kind.
C10_RemoveByKindExact ==
    lastOp.op = "removeByKind" =>
        LET old == lastOp.before
            new == boundingBoxes
            k   == lastOp.kind
        IN  /\ \A i \in 1..Len(new) : new[i].kind # k
            /\ IsSubseq(new, old)
            /\ Len(new) = Cardinality({i \in 1..Len(old) : old[i].kind # k})

\* removeByKind('manual') has removed a manual box and kept a box without
\* kind and a table box
C10_Witness ==
    /\ lastOp.op = "removeByKind"
    /\ lastOp.kind = "manual"
    /\ Len(lastOp.before) = 3
    /\ Len(boundingBoxes) = 2
    /\ \E i \in 1..2 : boundingBoxes[i].kind = NoKind
    /\ \E i \in 1..2 : boundingBoxes[i].kind = "table"

\* C11: a store operation that matches nothing leaves the store as it was:
\* remove(id) and update(id, p) for an id no box has, removeByKind(k) when no
\* box has kind k, clear() on an empty store; remove, removeByKind and clear
\* applied twice give what they give applied once; get(id) for an id no box
\* has is undefined
HasId(boxes, id) == \E i \in 1..Len(boxes) : boxes[i].id = id
HasKind(boxes, kind) == \E i \in 1..Len(boxes) : boxes[i].kind = kind
C11_NoMatchIsNoOp ==
    /\ (lastOp.op \in {"remove", "update"} /\ ~HasId(lastOp.before, lastOp.id))
          => boundingBoxes = lastOp.before
    /\ (lastOp.op = "removeByKind" /\ ~HasKind(lastOp.before, lastOp.kind))
          => boundingBoxes = lastOp.before
    /\ (lastOp.op = "clear" /\ lastOp.before = << >>)
          => boundingBoxes = lastOp.before
    /\ \A id \in IdInputs :
          /\ removeBoundingBox(removeBoundingBox(boundingBoxes, id), id)
                = removeBoundingBox(boundingBoxes, id)
          /\ ~HasId(boundingBoxes, id)
                => getBoundingBox(boundingBoxes, id) = Undefined
    /\ \A kind \in BoundingBoxKind :
          removeBoundingBoxesByKind(
              removeBoundingBoxesByKind(boundingBoxes, kind), kind)
            = removeBoundingBoxesByKind(boundingBoxes, kind)
    /\ clearBoundingBoxes(clearBoundingBoxes(boundingBoxes))
          = clearBoundingBoxes(boundingBoxes)

\* a remove of an id that no box of a non-empty store has
C11_Witness ==
    /\ lastOp.op = "remove"
    /\ lastOp.before # << >>
    /\ ~HasId(lastOp.before, lastOp.id)

\* C12 (as claimed): after add(b), get(b.id) is b, and after remove(i),
\* get(i) is undefined, whatever the store held before
C12_AddGetRemoveGet ==
    /\ lastOp.op = "add"
          => getBoundingBox(boundingBoxes, lastOp.box.id) = lastOp.box
    /\ lastOp.op = "remove"
          => getBoundingBox(boundingBoxes, lastOp.id) = Undefined

\* C13: stats() gives total = the number of boxes; per-kind counts in which a
\* box without a kind counts as 'manual' and which sum to total; hasOCR,
\* hasTable and hasManual are booleans, true exactly when that count is > 0
StatsExample == <<BoxA, BoxB, [BoxA EXCEPT !.kind = "ocr"], BoxC>>
CountOf(byKind, kind) == IF kind \in DOMAIN byKind THEN byKind[kind] ELSE 0
StatsAreRight(boxes) ==
    LET stats == getBoundingBoxesStats(boxes)
    IN  /\ stats.total = Len(boxes)
        /\ DOMAIN stats.byKind \subseteq BoundingBoxKind
        /\ \A kind \in BoundingBoxKind :
              CountOf(stats.byKind, kind)
                = Cardinality({i \in 1..Len(boxes) :
                                  \/ boxes[i].kind = kind
                                  \/ kind = "manual" /\ boxes[i].kind = NoKind})
        /\ CountOf(stats.byKind, "manual") + CountOf(stats.byKind, "ocr")
              + CountOf(stats.byKind, "table") = stats.total
        /\ stats.hasOCR \in BOOLEAN /\ stats.hasTable \in BOOLEAN
        /\ stats.hasManual \in BOOLEAN
        /\ stats.hasOCR <=> CountOf(stats.byKind, "ocr") > 0
        /\ stats.hasTable <=> CountOf(stats.byKind, "table") > 0
        /\ stats.hasManual <=> CountOf(stats.byKind, "manual") > 0
C13_StatsCounts ==
    /\ StatsAreRight(boundingBoxes)
    /\ StatsAreRight(StatsExample)
    /\ getBoundingBoxesStats(StatsExample).total = 4
    /\ getBoundingBoxesStats(StatsExample).hasOCR
    /\ getBoundingBoxesStats(StatsExample).hasTable
    /\ getBoundingBoxesStats(StatsExample).hasManual
    /\ getBoundingBoxesStats(<< >>)
          = [total |-> 0, byKind |-> << >>, hasOCR |-> FALSE,
             hasTable |-> FALSE, hasManual |-> FALSE]

\* a store with a box without a kind, an ocr box and a table box
C13_Witness ==
    /\ HasKind(boundingBoxes, NoKind)
    /\ HasKind(boundingBoxes, "ocr")
    /\ HasKind(boundingBoxes, "table")

\* C14 (as claimed): with the engine not ready or failed to load, detectTables
\* on a loaded page completes by returning the fallback's result, the empty
\* sequence when the page has no structure; it never throws and never sets
\* the error state
C14_FallbackNeverFails ==
    /\ ~(lastOp.op = "detectTablesRejected" /\ lastOp.fallback)
    /\ (lastOp.op = "detectTablesResolved" /\ lastOp.fallback /\ lastOp.blank)
          => lastOp.boxes = << >>

\* C15 (as claimed): each of the three sources is attempted at most once, in
\* the order 0, 1, 2, source i+1 only after the attempt on source i failed
\* (load error, or loaded without exposing the engine), and no source is
\* attempted after the engine became ready
C15_SourcesOnceInOrder ==
    /\ \A i, j \in 1..Len(cvScripts) :
          i # j => cvScripts[i].source # cvScripts[j].source
    /\ \A i \in 1..Len(cvScripts) : cvScripts[i].source = i - 1
    /\ \A i \in 2..Len(cvScripts) :
          cvScripts[i - 1].state \in {"failed", "loaded without cv"}
    /\ \A i \in 1..Len(cvScripts) : ~cvScripts[i].afterReady

\* C16 (as claimed): displayToImageCoords and convertDisplayToPDF return null
\* whenever the raster dimensions are unknown, the on-screen element is
\* missing, or the raster or the element has zero width or zero height, and
\* a mouse-up in such a case stores no box
ConversionUnavailable(originalDimensions, imageElement) ==
    \/ originalDimensions = Null
    \/ imageElement = Null
    \/ originalDimensions.width = 0 \/ originalDimensions.height = 0
    \/ imageElement.clientWidth = 0 \/ imageElement.clientHeight = 0
C16_UnavailableIsNull ==
    /\ (/\ lastOp.op = "convertDisplayToPDF"
        /\ ConversionUnavailable(lastOp.originalDimensions,
                                 lastOp.imageElement))
          => lastOp.image = Null /\ lastOp.coords = Null
    /\ (/\ lastOp.op = "handleMouseUp"
        /\ ConversionUnavailable(pdfInfo.originalDimensions,
                                 lastOp.imageElement))
          => Len(boundingBoxes) = Len(lastOp.before)

\* C17 (as claimed): for every stored box and every unit, each pt, px and mm
\* scalar of the export payload is a multiple of 0.01 and equals the value
\* the on-screen list shows for the same box and unit
IsWholeHundredth(value) == value.n % value.d = 0
SameNumber(a, b) == a.n * b.d = b.n * a.d
C17_ExportRounded ==
    LET payload == exportBoundingBoxes(boundingBoxes)
        list == BoundingBoxesList(boundingBoxes)
    IN  \A i \in 1..Len(boundingBoxes), unit \in Unit :
            \A f \in {"x", "y", "width", "height"} :
                /\ IsWholeHundredth(payload[i][unit][f])
                /\ SameNumber(payload[i][unit][f], list[i][unit][f])

\* C18 (as claimed): on an image with exactly 3 horizontal and 3 vertical dark
\* bands, each passing the 30% run rule and of any thickness, the fallback in
\* cells mode returns exactly 4 cells, with (row, col) indices (0,0), (0,1),
\* (1,0), (1,1)
C18_ThreeBandsFourCells ==
    lastOp.op = "fallbackCells"
      => /\ Len(lastOp.cells) = 4
         /\ Len(lastOp.boxes) = 4
         /\ {<<lastOp.cells[k].row, lastOp.cells[k].col>> :
                k \in 1..Len(lastOp.cells)}
              = {<<0, 0>>, <<0, 1>>, <<1, 0>>, <<1, 1>>}

\* what the list, the viewer's label and the viewer's colours show for a role
ShownAs(box, role) ==
    /\ getBoxType(box) =
          (CASE role = "hline" -> "Horizontal Line"
             [] role = "vline" -> "Vertical Line"
             [] role = "cell" -> "Table Cell"
             [] role = "region" -> "Table Region")
    /\ getBoxLabel(box, 0) =
          (CASE role = "hline" -> "hline glyph"
             [] role = "vline" -> "vline glyph"
             [] role = "cell" -> "cell glyph"
             [] role = "region" -> "number")
    /\ getBoxStyle(box) =
          (CASE role \in {"hline", "vline"} -> "#ef4444"
             [] role = "cell" -> "#3b82f6"
             [] role = "region" -> "#8b5cf6")
    /\ getLabelColor(box) = getBoxStyle(box)
    /\ getTypeColor(box) =
          (CASE role \in {"hline", "vline"} -> "text-red-600"
             [] role = "cell" -> "text-blue-600"
             [] role = "region" -> "text-purple-600")

\* a box shown as a line or a cell anywhere in the viewer or the list
ShownAsLineOrCell(box) ==
    \/ getBoxType(box) \in {"Horizontal Line", "Vertical Line", "Table Cell"}
    \/ getBoxLabel(box, 0) # "number"
    \/ getBoxStyle(box) \in {"#ef4444", "#3b82f6"}
    \/ getLabelColor(box) \in {"#ef4444", "#3b82f6"}
    \/ getTypeColor(box) \in {"text-red-600", "text-blue-600"}
    \/ Len(lineBoxes(<<box>>)) + Len(cellBoxes(<<box>>)) > 0

\* C19: every box detectTables returns has kind 'table' and unit 'pt' and is
\* shown by the viewer and the list under the role its detector gave it (line,
\* cell or region), and no manual or OCR box of the store is shown as a line
\* or a cell
C19_IdEncodesRole ==
    /\ lastOp.op = "detectTablesResolved"
         => \A k \in 1..Len(lastOp.boxes) :
                LET box == lastOp.boxes[k]
                IN  /\ box.kind = "table"
                    /\ box.unit = "pt"
                    /\ DetectedRole(box) # "none"
                    /\ ShownAs(box, DetectedRole(box))
                    /\ Len(lineBoxes(<<box>>)) =
                          (IF DetectedRole(box) \in {"hline", "vline"}
                           THEN 1 ELSE 0)
                    /\ Len(cellBoxes(<<box>>)) =
                          (IF DetectedRole(box) = "cell" THEN 1 ELSE 0)
                    /\ Len(regionBoxes(<<box>>)) =
                          (IF DetectedRole(box) = "region" THEN 1 ELSE 0)
    /\ \A i \in 1..Len(boundingBoxes) :
           boundingBoxes[i].kind # "table" => ~ShownAsLineOrCell(boundingBoxes[i])

\* a detection has just returned a cell into a store that holds a box
\* recognised at line level
C19_Witness ==
    /\ lastOp.op = "detectTablesResolved"
    /\ \E k \in 1..Len(lastOp.boxes) : DetectedRole(lastOp.boxes[k]) = "cell"
    /\ \E i \in 1..Len(boundingBoxes) :
           /\ boundingBoxes[i].kind = "ocr"
           /\ boundingBoxes[i].id.prefix = "ocr-line-bbox"

\* the operations that end with an engine's exception
EngineFailures ==
    {"ocrRejected", "detectTablesRejected", "loadRejected", "renderRejected"}

\* C20 (as claimed): when the rasterizer (load or render), the OCR engine or
\* the morphology engine throws, the operation leaves an error state the user
\* sees and its caller gets the exception
C20_EngineFailureRecorded ==
    lastOp.op \in EngineFailures => (cvError # Null /\ lastOp.thrown)

\* C21 (as claimed): if from some point on no changePage request is issued
\* and every started render completes, then eventually, and from then on, no
\* render is in flight: render completions cannot keep currentPage alternating
C21_NavigationConverges ==
    <>[][lastOp'.op # "changePage"]_vars => <>[](renders = << >>)

\* the items of the selected level that pass the confidence filter
ConfidentItems ==
    SelectSeq(getOCRDataByLevel(textData, settings.level),
              LAMBDA item : item.confidence >= settings.minConfidence)

\* C22 (as claimed): generateBoundingBoxes returns, in item order, exactly one
\* box of kind 'ocr' and unit 'pt' with the item's point-space rectangle for
\* every item of the selected level whose confidence is at least
\* minConfidence, wherever the rectangle lies on the page
C22_OneBoxPerConfidentItem ==
    textData # Null =>
        LET boxes == generateBoundingBoxes(textData, settings, now)
        IN  /\ Len(boxes) = Len(ConfidentItems)
            /\ \A k \in 1..Len(boxes) :
                   /\ boxes[k].kind = "ocr"
                   /\ boxes[k].unit = "pt"
                   /\ boxes[k].x = ConfidentItems[k].bbox.pt.x
                   /\ boxes[k].y = ConfidentItems[k].bbox.pt.y
                   /\ boxes[k].width = ConfidentItems[k].bbox.pt.width
                   /\ boxes[k].height = ConfidentItems[k].bbox.pt.height

\* C23: for table detection and for OCR, the processing flag is true exactly
\* while an operation of that kind is in flight, and right after an operation
\* that threw the flag is false and the button dispatches the operation again
C23_FlagFollowsFlight ==
    /\ isTableProcessing <=> tableRuns # << >>
    /\ isOcrProcessing <=> ocrRuns # << >>
    /\ lastOp.op = "detectTablesRejected"
          => ~isTableProcessing /\ ENABLED handleDetectTables
    /\ lastOp.op = "ocrRejected"
          => ~isOcrProcessing /\ (tableRuns = << >> => ENABLED handlePerformOCR)

\* a detection has just thrown while an OCR run is still in flight
C23_Witness ==
    /\ lastOp.op = "detectTablesRejected"
    /\ ~isTableProcessing
    /\ isOcrProcessing
    /\ ocrRuns # << >>

\* C24 (as claimed): the engine's status is loading (cvLoaded false, cvError
\* null), ready (cvLoaded true, cvError null) or failed (cvLoaded false,
\* cvError set): cvLoaded true with an error set is unreachable
C24_StatusIsTriState ==
    \/ ~cvLoaded /\ cvError = Null
    \/ cvLoaded /\ cvError = Null
    \/ ~cvLoaded /\ cvError # Null

\* the boxes of a result whose id was written from the given template
BoxesOfTemplate(boxes, prefix) ==
    SelectSeq(boxes, LAMBDA box : box.id.prefix = prefix)

\* C25 (as claimed): the fallback returns region boxes only in mode 'table',
\* or in mode 'cells' when it found no cell; in mode 'lines' it returns none
C25_FallbackRegionsByMode ==
    (lastOp.op = "detectTablesResolved" /\ lastOp.fallback)
      => (BoxesOfTemplate(lastOp.boxes, "table-region") # << >>
            => \/ mode = "table"
               \/ /\ mode = "cells"
                  /\ BoxesOfTemplate(lastOp.boxes, "cell") = << >>)

\* C26 (as claimed): in the engine's cells mode a contour rectangle is kept
\* exactly when its width and its height lie in the closed interval from 15 px
\* to half of the raster's width and height
C26_CellBoundsAreClosed ==
    lastOp.op = "detectCellContour"
      => (Len(lastOp.boxes) = 1
            <=> /\ lastOp.rect.width >= 15
                /\ lastOp.rect.height >= 15
                /\ lastOp.rect.width * 2 <= RasterDims.width
                /\ lastOp.rect.height * 2 <= RasterDims.height)

\* C27 (as claimed): once the boxes of an OCR result are in the store,
\* updating the OCR settings without running OCR again leaves the store
\* unchanged
C27_SettingsUpdateKeepsStore ==
    lastOp.op = "updateSettings" => boundingBoxes = lastOp.before

\* C28 (as claimed): after every mouse-up on the viewer the drawing state is
\* idle (isDrawing false, startPoint null, currentBox null), also when the
\* mouse-up directly follows a mouse-down
C28_IdleAfterMouseUp ==
    lastOp.op = "handleMouseUp"
      => ~isDrawing /\ startPoint = Null /\ currentBox = Null

\* what stats() counts for a kind: byKind's entry, 0 when the key is absent
StatsCount(kind) ==
    LET stats == getBoundingBoxesStats(boundingBoxes)
    IN  IF kind \in DOMAIN stats.byKind THEN stats.byKind[kind] ELSE 0

StatsFlag(kind) ==
    LET stats == getBoundingBoxesStats(boundingBoxes)
    IN  CASE kind = "manual" -> stats.hasManual
          [] kind = "ocr" -> stats.hasOCR
          [] kind = "table" -> stats.hasTable

\* C29 (as claimed): right after removeByKind(k), stats() counts no box of
\* kind k and the flag of k is false, and in every state getByKind(k) returns
\* as many boxes as stats() counts for k
C29_RemoveByKindAgreesWithStats ==
    /\ lastOp.op = "removeByKind"
          => StatsCount(lastOp.kind) = 0 /\ ~StatsFlag(lastOp.kind)
    /\ \A kind \in BoundingBoxKind :
           Len(getBoundingBoxesByKind(boundingBoxes, kind)) = StatsCount(kind)

\* the operations of the PDF hook: navigation, file loads and their answers
DocumentOps ==
    {"changePage", "renderResolved", "renderRejected", "loadPDFFile",
     "loadResolved", "loadRejected"}

\* C30: changing the page, the completion of a render and the loading of a
\* new file leave the store as it is, boxes and order, and an export writes
\* the stored boxes in that order under the page number current at that time
C30_StoreKeptAcrossPages ==
    /\ [][lastOp'.op \in DocumentOps => boundingBoxes' = boundingBoxes]_vars
    /\ [](lastOp.op = "exportBoundingBoxes"
            => /\ lastOp.data.page = pdfInfo.currentPage
               /\ Len(lastOp.data.boundingBoxes) = Len(boundingBoxes)
               /\ \A i \in 1..Len(boundingBoxes) :
                      /\ lastOp.data.boundingBoxes[i].id = boundingBoxes[i].id
                      /\ lastOp.data.boundingBoxes[i].index = i)

\* a box drawn on the first file has just been exported from page 2 of the
\* second file
C30_Witness ==
    /\ lastOp.op = "exportBoundingBoxes"
    /\ lastOp.data.page = 2
    /\ lastOp.data.filename = 2
    /\ pdfInfo.document # Null
    /\ pdfInfo.document.id = 2
    /\ pdfInfo.imageDataUrl = [doc |-> 2, page |-> 2]
    /\ boundingBoxes # << >>

====
